---- MODULE Spec2Model ----
(***************************************************************************)
(* Lookup orchestrator of the debtor-portrait bot (src/main.py):           *)
(*   - fetch_service_data: the HTTP retry / poll loop against one gateway, *)
(*   - process_single_request / process_excel_row: the per-subject fan-out *)
(*     over the gateways and the merge into the aggregated record,         *)
(*   - request_queue, worker, the submission handlers and the scheduled    *)
(*     refresh job update_db_records.                                      *)
(* Three specifications share the variables: SpecFetch runs one call of    *)
(* fetch_service_data, SpecLookup one lookup of one subject, SpecQueue the *)
(* queue with its producers, the worker and the refresh job.               *)
(***************************************************************************)
EXTENDS Integers, Sequences, FiniteSets, TLC

VARIABLES
    \* ---- fetch_service_data (one call) ----
    f_service,      \* the `service` argument
    f_pc,           \* "idle" | "post" | "poll_wait" | "backoff" | "done" | "raised"
                    \* ("raised": an exception left the function)
    attempt,        \* the loop variable `attempt`
    elapsed,        \* loop.time() - start_time, in seconds
    posts,          \* number of session.post calls issued so far
    nSentinel,      \* responses that took the "still processing" branch
    nRetryable,     \* responses that took the gibdd_auto retryable-error branch
    nFailed,        \* responses that consumed one attempt of the retry budget
    f_result,       \* the returned dict (or the escaped exception)
    \* ---- one lookup (process_single_request / process_excel_row) ----
    l_pc,           \* "idle" | "start" | "gather" | "saved" | "failed"
    data,           \* the request taken from the queue: identifiers of the subject
    is_excel,       \* TRUE: process_excel_row, FALSE: process_single_request
    tasks,          \* the list `tasks`: the service of each fetch_service_data call
    results,        \* result of each task, "pending" until it completes
    collected_data, \* the aggregated record being built
    db,             \* the debtors table: the set of its rows
    log_file,       \* updates.log: the entries log_updates has appended
    \* ---- queue, worker, refresh job ----
    request_queue,  \* asyncio.Queue contents
    reply,          \* what the latest submission was answered with
    worker_pc,      \* "get" | "processing" | "sleep"
    worker_item,    \* the request the worker is processing
    refresh_pc,     \* "idle" | "next" | "fetching"
    refresh_records, \* records the refresh job still has to process
    \* ---- a source service: one gateway request and its scraper call ----
    s_service,      \* the service, "none" when no request is modelled
    s_input,        \* the request body, one of Payloads
    s_post,         \* which POST of fetch_service_data the request is (0: a
                    \* request from another client)
    s_pc,           \* "idle" | "request" | "acquire" | "attempt" | "search" |
                    \* "wait" | "returned" | "raised" | "responded"
    s_attempt,      \* attempt number of the scraper's loop
    s_captcha,      \* failed CAPTCHA passes of the current attempt (gibdd_fines)
    s_poll,         \* solve_captcha's polling loop: polls made, seconds slept,
                    \* whether the last poll brought the solution
    s_loads,        \* page.goto calls so far
    s_launches,     \* browsers launched or attached so far
    s_open,         \* what the invocation holds open
    s_result,       \* the scraper's return value
    s_last,         \* `result` of the attempt loop: the record of the last
                    \* attempt that gave one
    s_response,     \* the HTTP response
    \* ---- a source-service process: its requests and GLOBAL_SEMAPHORE ----
    p_service,      \* the process's service, "none" when not modelled
    requests,       \* per request (each served on an event loop of its own):
                    \* how many of its scrapes are new, waiting, open, ...
    sem_value,      \* GLOBAL_SEMAPHORE._value
    sem_loop,       \* the event loop GLOBAL_SEMAPHORE is bound to (0: none)
    sem_handed,     \* waiters whose future is set and that have not resumed
    sem_awake       \* the bound loop has a callback of its own thread to run

fetchVars  == <<f_service, f_pc, attempt, elapsed, posts, nSentinel, nRetryable,
                nFailed, f_result>>
lookupVars == <<l_pc, data, is_excel, tasks, results, collected_data, db,
                log_file>>
queueVars  == <<request_queue, reply, worker_pc, worker_item, refresh_pc,
                refresh_records>>
scrapeVars == <<s_service, s_input, s_post, s_pc, s_attempt, s_captcha, s_poll, s_loads,
                s_launches, s_open, s_result, s_last, s_response>>
limiterVars == <<p_service, requests, sem_value, sem_loop, sem_handed, sem_awake>>
serviceVars == <<scrapeVars, limiterVars>>
vars == <<fetchVars, lookupVars, queueVars, serviceVars>>

-----------------------------------------------------------------------------
(* Services and their constants                                              *)

SERVICE_URLS ==
    {"gibdd_auto", "gibdd_fines", "efrsb", "kad_arbitr", "osago", "nalog",
     "pledge", "probate"}

PollServices == {"gibdd_auto", "gibdd_fines"}

max_attempts == 3
check_interval == 10
RetryBackoff == 5
PollTimeout == 120
DefaultTimeout == 30

\* A slow response arrives ResponseMargin seconds before the per-attempt
\* timeout would fire (a bound of the model; a fast one arrives at once).
ResponseMargin == 10

timeout(service) ==
    IF service \in PollServices THEN PollTimeout ELSE DefaultTimeout

ResponseLatencies(service) == {0, timeout(service) - ResponseMargin}

total_timeout(service) == timeout(service) * max_attempts

-----------------------------------------------------------------------------
(* Responses of a gateway as fetch_service_data sees them.                   *)
(*   kind "http200": a JSON object; status is data.get("status"), sentinel   *)
(*     is data.get("data") == "Выполняется запрос, ждите...", retry is       *)
(*     "Timeout 10000ms exceeded" in message or data.get("retry").           *)
(*   kind "non200": response.status != 200.                                  *)
(*   kind "client_error": aiohttp.ClientError.                               *)
(*   kind "timeout": asyncio.TimeoutError after `timeout` seconds.           *)
(*   kind "bad_body": response.json() or data.get raises an exception that   *)
(*     is neither ClientError nor TimeoutError (a body that is no JSON       *)
(*     object).                                                              *)

NoBody == [status |-> "none", sentinel |-> FALSE, retry |-> FALSE]

Bodies == [status : {"success", "error", "no_data", "none"},
           sentinel : BOOLEAN, retry : BOOLEAN]

Http200(svc) == {[kind |-> "http200", service |-> svc, body |-> b] : b \in Bodies}

Other(svc, k) == [kind |-> k, service |-> svc, body |-> NoBody]

\* Values fetch_service_data returns or raises.
FromResponse(r) ==
    [service |-> r.service, status |-> r.body.status, origin |-> "response",
     sentinel |-> r.body.sentinel]

ErrorResult(svc, why) ==
    [service |-> svc, status |-> "error", origin |-> why, sentinel |-> FALSE]

Raised(svc) ==
    [service |-> svc, status |-> "exception", origin |-> "raised",
     sentinel |-> FALSE]

NoResult ==
    [service |-> "none", status |-> "none", origin |-> "none",
     sentinel |-> FALSE]

FinalStatuses == {"success", "error", "no_data"}

\* main.py:319
IsSentinel(r) == r.kind = "http200" /\ r.body.sentinel

\* Mutant: the retry flag is honoured for both polled services.
IsRetryableError_BothGibdd(r) ==
    /\ r.kind = "http200"
    /\ r.body.status = "error"
    /\ r.body.retry

\* main.py:328-333
IsRetryableError(r) ==
    /\ r.kind = "http200"
    /\ r.service = "gibdd_auto"
    /\ r.body.status = "error"
    /\ r.body.retry

\* main.py:343
IsFinal(r) == r.kind = "http200" /\ r.body.status \in FinalStatuses

-----------------------------------------------------------------------------
(* fetch_service_data                                                        *)

FetchIdle ==
    /\ f_service = "none"
    /\ f_pc = "idle"
    /\ attempt = 1
    /\ elapsed = 0
    /\ posts = 0
    /\ nSentinel = 0
    /\ nRetryable = 0
    /\ nFailed = 0
    /\ f_result = NoResult

\* session.post(url, json=payload, timeout=timeout) answered after lat seconds.
Receive(lat) ==
    /\ f_pc = "post"
    /\ posts' = posts + 1
    /\ elapsed' = elapsed + lat
    /\ UNCHANGED <<f_service, lookupVars, queueVars, serviceVars>>

\* Mutant: the last attempt is taken for one more round.
ConsumeAttempt_OffByOne(why) ==
    /\ nFailed' = nFailed + 1
    /\ IF attempt = max_attempts + 1
         THEN f_pc' = "done" /\ f_result' = ErrorResult(f_service, why)
         ELSE f_pc' = "backoff" /\ f_result' = f_result
    /\ UNCHANGED <<attempt, nSentinel, nRetryable>>

\* if attempt == max_attempts: return {"status": "error", ...}
\* await asyncio.sleep(5); attempt += 1
ConsumeAttempt(why) ==
    /\ nFailed' = nFailed + 1
    /\ IF attempt = max_attempts
         THEN f_pc' = "done" /\ f_result' = ErrorResult(f_service, why)
         ELSE f_pc' = "backoff" /\ f_result' = f_result
    /\ UNCHANGED <<attempt, nSentinel, nRetryable>>

\* Mutant: on the exceeded ceiling the intermediate answer is handed back.
PollOrGiveUp_ReturnsSentinel(r) ==
    /\ IF elapsed' >= total_timeout(f_service)
         THEN f_pc' = "done" /\ f_result' = FromResponse(r)
         ELSE f_pc' = "poll_wait" /\ f_result' = f_result
    /\ UNCHANGED <<attempt, nFailed>>

\* elapsed_time = loop.time() - start_time
\* if elapsed_time >= total_timeout: return {"status": "error", ...}
\* await asyncio.sleep(check_interval); continue
PollOrGiveUp(r) ==
    /\ IF elapsed' >= total_timeout(f_service)
         THEN f_pc' = "done" /\ f_result' = ErrorResult(f_service, "total_timeout")
         ELSE f_pc' = "poll_wait" /\ f_result' = f_result
    /\ UNCHANGED <<attempt, nFailed>>

PostNon200 ==
    \E lat \in ResponseLatencies(f_service) :
        /\ Receive(lat)
        /\ ConsumeAttempt("http_status")

\* Mutant: an intermediate answer uses up one attempt of the retry budget.
PostSentinel_CountsAttempt ==
    \E r \in Http200(f_service), lat \in ResponseLatencies(f_service) :
        /\ f_service \in PollServices
        /\ IsSentinel(r)
        /\ Receive(lat)
        /\ nSentinel' = nSentinel + 1
        /\ attempt' = attempt + 1
        /\ IF attempt = max_attempts \/ elapsed' >= total_timeout(f_service)
             THEN f_pc' = "done" /\ f_result' = ErrorResult(f_service, "total_timeout")
             ELSE f_pc' = "poll_wait" /\ f_result' = f_result
        /\ UNCHANGED <<nRetryable, nFailed>>

PostSentinel ==
    \E r \in Http200(f_service), lat \in ResponseLatencies(f_service) :
        /\ f_service \in PollServices
        /\ IsSentinel(r)
        /\ Receive(lat)
        /\ nSentinel' = nSentinel + 1
        /\ UNCHANGED nRetryable
        /\ PollOrGiveUp(r)

PostRetryableError ==
    \E r \in Http200(f_service), lat \in ResponseLatencies(f_service) :
        /\ f_service \in PollServices
        /\ ~IsSentinel(r)
        /\ IsRetryableError(r)
        /\ Receive(lat)
        /\ nRetryable' = nRetryable + 1
        /\ UNCHANGED nSentinel
        /\ PollOrGiveUp(r)

\* Mutant: the 'still processing' answer is not tested for.
NotPolled_SentinelPasses(r) ==
    ~(f_service \in PollServices /\ IsRetryableError(r))

\* The response passes both polling branches (lines 317-340).
NotPolled(r) ==
    ~(f_service \in PollServices /\ (IsSentinel(r) \/ IsRetryableError(r)))

PostFinal ==
    \E r \in Http200(f_service), lat \in ResponseLatencies(f_service) :
        /\ NotPolled(r)
        /\ IsFinal(r)
        /\ Receive(lat)
        /\ f_pc' = "done"
        /\ f_result' = FromResponse(r)
        /\ UNCHANGED <<attempt, nSentinel, nRetryable, nFailed>>

PostInvalid ==
    \E r \in Http200(f_service), lat \in ResponseLatencies(f_service) :
        /\ NotPolled(r)
        /\ ~IsFinal(r)
        /\ Receive(lat)
        /\ ConsumeAttempt("invalid_response")

PostClientError ==
    \E lat \in ResponseLatencies(f_service) :
        /\ Receive(lat)
        /\ ConsumeAttempt("network")

PostTimeout ==
    /\ Receive(timeout(f_service))
    /\ ConsumeAttempt("network")

\* response.json() or data.get(...) raises something the except clause of
\* line 353 does not name: the exception leaves fetch_service_data.
PostBadBody ==
    \E lat \in ResponseLatencies(f_service) :
        /\ Receive(lat)
        /\ f_pc' = "raised"
        /\ f_result' = Raised(f_service)
        /\ UNCHANGED <<attempt, nSentinel, nRetryable, nFailed>>

\* await asyncio.sleep(check_interval); continue
PollWait ==
    /\ f_pc = "poll_wait"
    /\ elapsed' = elapsed + check_interval
    /\ f_pc' = "post"
    /\ UNCHANGED <<f_service, attempt, posts, nSentinel, nRetryable, nFailed,
                   f_result, lookupVars, queueVars, serviceVars>>

\* await asyncio.sleep(5); attempt += 1
Backoff ==
    /\ f_pc = "backoff"
    /\ elapsed' = elapsed + RetryBackoff
    /\ attempt' = attempt + 1
    /\ f_pc' = "post"
    /\ UNCHANGED <<f_service, posts, nSentinel, nRetryable, nFailed,
                   f_result, lookupVars, queueVars, serviceVars>>

-----------------------------------------------------------------------------
(* Subject queries and validate_input                                        *)
(* An identifier is "missing" (no such key in the dict), "" (empty string), *)
(* "malformed" (non-empty, not matching its regular expression in           *)
(* validate_input) or a matching value: one of two tax identifiers, of 10   *)
(* and of 12 digits, and "valid" for the other identifiers.                  *)

Identifiers == {"inn", "fio", "vin", "sts", "grz"}

INNs == {"7701234567", "500100732259"}

Matching(k) == IF k = "inn" THEN INNs ELSE {"valid"}

IdentifierValues(k) == {"missing", "", "malformed"} \cup Matching(k)

AllData == {d \in [Identifiers -> {"missing", "", "malformed", "valid"} \cup INNs] :
               \A k \in Identifiers : d[k] \in IdentifierValues(k)}

NoData == [k \in Identifiers |-> "missing"]

\* data.get(k, "")
Get(d, k) == IF d[k] = "missing" THEN "" ELSE d[k]

\* Python truthiness of data.get(k, "")
Present(d, k) == Get(d, k) # ""

\* if "<k>" in data and not re.match(..., data["<k>"]): return False
validate_input(d) ==
    \A k \in Identifiers : d[k] # "missing" => d[k] \in Matching(k)

\* len(grz.split()): the regular expression of line 462 has exactly one
\* whitespace between the two parts; a malformed plate such as "А123БВ777"
\* has one part.
GrzParts(v) == IF v = "valid" THEN 2 ELSE IF v = "malformed" THEN 1 ELSE 0

\* Requests the handlers put on the queue.
\* process_collected_input: only the keys the user typed, validated, inn needed.
ManualRequests ==
    {d \in AllData :
        /\ \A k \in Identifiers : d[k] # ""
        /\ validate_input(d)
        /\ Present(d, "inn")}

\* handle_message, spreadsheet rows: every key is set ('' for an empty cell)
\* and validate_input is applied to all five.
ExcelRequests ==
    {d \in AllData :
        /\ \A k \in Identifiers : d[k] # "missing"
        /\ validate_input(d)}

-----------------------------------------------------------------------------
(* process_single_request / process_excel_row                                *)

SourceFields ==
    {"gibdd_auto", "gibdd_fines", "efrsb", "nsis", "reestr_zalogov", "notariat",
     "pb_nalog", "kad_arbitr"}

\* The record field each service's result is stored under.
FieldOf(svc) ==
    CASE svc = "gibdd_auto"  -> "gibdd_auto"
      [] svc = "osago"       -> "nsis"
      [] svc = "pledge"      -> "reestr_zalogov"
      [] svc = "gibdd_fines" -> "gibdd_fines"
      [] svc = "efrsb"       -> "efrsb"
      [] svc = "nalog"       -> "pb_nalog"
      [] svc = "kad_arbitr"  -> "kad_arbitr"
      [] svc = "probate"     -> "notariat"

\* What one fetch_service_data task ends with: a dict with a terminal status
\* (the gateway's answer, or one of the error dicts of lines 307-356), or an
\* exception that asyncio.gather(return_exceptions=True) hands back as a value.
Outcome(svc, st) == [service |-> svc, status |-> st]

Pending == Outcome("none", "pending")

TaskStatuses == {"success", "no_data", "error", "exception"}

\* Bound of the model: at most MaxTroubled of the calls of one lookup end
\* otherwise than with status success.
MaxTroubled == 2

\* json.dumps(value, ensure_ascii=False): a string for a dict, TypeError for
\* an exception object.
Serializable(v) == v.status # "exception"

json_dumps(v) == <<"json", v>>

EmptyString == <<>>

GrzError == <<"json", Outcome("orchestrator", "error")>>

FinesRequested(d) == Present(d, "grz") /\ Present(d, "sts")

FinesCallable(d) == FinesRequested(d) /\ GrzParts(Get(d, "grz")) = 2

\* Mutant: a fines call is queued for any non-empty plate.
BuildTasks_NoSplitCheck(d) ==
    (IF Present(d, "vin") THEN <<"gibdd_auto", "osago", "pledge">> ELSE <<>>)
    \o (IF Present(d, "grz") THEN <<"gibdd_fines">> ELSE <<>>)
    \o (IF Present(d, "inn") THEN <<"efrsb", "nalog", "kad_arbitr">> ELSE <<>>)
    \o (IF Present(d, "fio") THEN <<"probate">> ELSE <<>>)

\* Mutant: a source is called when its identifier's key is in the dict, empty
\* or not.
BuildTasks_KeyPresence(d) ==
    (IF d["vin"] # "missing" THEN <<"gibdd_auto", "osago", "pledge">> ELSE <<>>)
    \o (IF FinesCallable(d) THEN <<"gibdd_fines">> ELSE <<>>)
    \o (IF d["inn"] # "missing" THEN <<"efrsb", "nalog", "kad_arbitr">> ELSE <<>>)
    \o (IF d["fio"] # "missing" THEN <<"probate">> ELSE <<>>)

\* The list `tasks`, in the order the code appends to it.
BuildTasks(d) ==
    (IF Present(d, "vin") THEN <<"gibdd_auto", "osago", "pledge">> ELSE <<>>)
    \o (IF FinesCallable(d) THEN <<"gibdd_fines">> ELSE <<>>)
    \o (IF Present(d, "inn") THEN <<"efrsb", "nalog", "kad_arbitr">> ELSE <<>>)
    \o (IF Present(d, "fio") THEN <<"probate">> ELSE <<>>)

\* collected_data before the calls: identifiers copied, source fields "".
InitialRecord(d) ==
    [f \in Identifiers \cup SourceFields |->
        IF f \in Identifiers THEN <<Get(d, f)>>
        ELSE IF f = "gibdd_fines" /\ FinesRequested(d) /\ ~FinesCallable(d)
             THEN GrzError
        ELSE EmptyString]

\* Mutant: the insurance and pledge results are read from each other's slot.
Assignments_Swapped(d) ==
    LET vinN   == IF Present(d, "vin") THEN 3 ELSE 0
        finesN == IF FinesCallable(d) THEN 1 ELSE 0
        innN   == IF Present(d, "inn") THEN 3 ELSE 0
    IN  (IF Present(d, "vin")
            THEN <<<<"gibdd_auto", 1>>, <<"nsis", 3>>, <<"reestr_zalogov", 2>>>>
            ELSE <<>>)
        \o (IF FinesCallable(d) THEN <<<<"gibdd_fines", vinN + 1>>>> ELSE <<>>)
        \o (IF Present(d, "inn")
            THEN <<<<"efrsb", vinN + finesN + 1>>, <<"pb_nalog", vinN + finesN + 2>>,
                   <<"kad_arbitr", vinN + finesN + 3>>>>
            ELSE <<>>)
        \o (IF Present(d, "fio")
            THEN <<<<"notariat", vinN + finesN + innN + 1>>>> ELSE <<>>)

\* The task_idx walk of lines 734-749: <<field, index into results>> in the
\* order the assignments are executed (indices from 1).
Assignments(d) ==
    LET vinN   == IF Present(d, "vin") THEN 3 ELSE 0
        finesN == IF FinesCallable(d) THEN 1 ELSE 0
        innN   == IF Present(d, "inn") THEN 3 ELSE 0
    IN  (IF Present(d, "vin")
            THEN <<<<"gibdd_auto", 1>>, <<"nsis", 2>>, <<"reestr_zalogov", 3>>>>
            ELSE <<>>)
        \o (IF FinesCallable(d) THEN <<<<"gibdd_fines", vinN + 1>>>> ELSE <<>>)
        \o (IF Present(d, "inn")
            THEN <<<<"efrsb", vinN + finesN + 1>>, <<"pb_nalog", vinN + finesN + 2>>,
                   <<"kad_arbitr", vinN + finesN + 3>>>>
            ELSE <<>>)
        \o (IF Present(d, "fio")
            THEN <<<<"notariat", vinN + finesN + innN + 1>>>> ELSE <<>>)

\* Number of assignments executed before json.dumps raises (all of them when
\* every result is serializable).
Executed(asg, res) ==
    LET bad == {k \in 1..Len(asg) : ~Serializable(res[asg[k][2]])}
    IN  IF bad = {} THEN Len(asg)
        ELSE (CHOOSE k \in bad : \A m \in bad : k <= m) - 1

\* collected_data after the first n assignments.
Assigned(rec, asg, res, n) ==
    [f \in DOMAIN rec |->
        IF \E k \in 1..n : asg[k][1] = f
        THEN json_dumps(res[(asg[CHOOSE k \in 1..n : asg[k][1] = f])[2]])
        ELSE rec[f]]

\* The debtors table (init_db, lines 241-258): a set of rows; the column inn
\* is declared UNIQUE.
EmptyTable == {}

Stored(table, inn) == \E row \in table : row["inn"][1] = inn

\* What get_from_db answers for a tax identifier that has no row.
NoRow ==
    [f \in Identifiers \cup SourceFields |->
        IF f \in Identifiers THEN <<"">> ELSE EmptyString]

\* SELECT * FROM debtors WHERE inn = ?, fetchone()
get_from_db(table, inn) ==
    IF Stored(table, inn)
    THEN CHOOSE row \in table : row["inn"][1] = inn
    ELSE NoRow

\* Mutant: a plain INSERT, the row of the same tax identifier stays.
save_to_db_Insert(table, rec) == table \cup {rec}

\* INSERT OR REPLACE: the rows that conflict with the new one on the UNIQUE
\* column are deleted, then the new row is inserted.
save_to_db(table, rec) ==
    {row \in table : row["inn"] # rec["inn"]} \cup {rec}

NoRecord == <<>>

LookupVarsIdle ==
    /\ l_pc = "idle"
    /\ data = NoData
    /\ is_excel = FALSE
    /\ tasks = <<>>
    /\ results = <<>>
    /\ collected_data = NoRecord
    /\ db = EmptyTable
    /\ log_file = <<>>

\* Lines 673-727: collected_data is set up and the calls are created.
StartLookup ==
    /\ l_pc = "start"
    /\ collected_data' = InitialRecord(data)
    /\ tasks' = BuildTasks(data)
    /\ results' = [i \in 1..Len(BuildTasks(data)) |-> Pending]
    /\ l_pc' = "gather"
    /\ UNCHANGED <<data, is_excel, db, log_file, fetchVars, queueVars, serviceVars>>

Troubled(res) == {i \in DOMAIN res : res[i].status \notin {"pending", "success"}}

\* One of the gathered calls ends, in any order.
TaskDone(i, st) ==
    /\ l_pc = "gather"
    /\ i \in DOMAIN results
    /\ results[i] = Pending
    /\ st # "success" => Cardinality(Troubled(results)) < MaxTroubled
    /\ results' = [results EXCEPT ![i] = Outcome(tasks[i], st)]
    /\ UNCHANGED <<l_pc, data, is_excel, tasks, collected_data, db, log_file,
                   fetchVars, queueVars, serviceVars>>

GatherComplete == \A i \in DOMAIN results : results[i] # Pending

\* Lines 734-751: every result is serialized into its field, then save_to_db.
MergeAndSave ==
    /\ l_pc = "gather"
    /\ GatherComplete
    /\ LET asg == Assignments(data)
       IN  /\ Executed(asg, results) = Len(asg)
           /\ collected_data' = Assigned(collected_data, asg, results, Len(asg))
           /\ db' = save_to_db(db, collected_data')
    /\ l_pc' = "saved"
    /\ UNCHANGED <<data, is_excel, tasks, results, log_file, fetchVars, queueVars,
                   serviceVars>>

\* Lines 734-749 and the except clause of line 794 (231): json.dumps raises on
\* an exception object, the remaining assignments and save_to_db are skipped.
MergeRaises ==
    /\ l_pc = "gather"
    /\ GatherComplete
    /\ LET asg == Assignments(data)
       IN  /\ Executed(asg, results) < Len(asg)
           /\ collected_data' =
                Assigned(collected_data, asg, results, Executed(asg, results))
    /\ l_pc' = "failed"
    /\ UNCHANGED <<data, is_excel, tasks, results, db, log_file, fetchVars, queueVars,
                   serviceVars>>

-----------------------------------------------------------------------------
(* request_queue, its producers, the worker and the refresh job              *)

QueueLimit == 10

Request(d, excel) == [data |-> d, is_excel |-> excel]

NoRequest == Request(NoData, FALSE)

QueueVarsIdle ==
    /\ request_queue = <<>>
    /\ reply = "none"
    /\ worker_pc = "get"
    /\ worker_item = NoRequest
    /\ refresh_pc = "idle"
    /\ refresh_records = <<>>

\* Mutant: the queue is taken for full one request late.
Admit_OffByOne(d, excel, refusal) ==
    IF ~validate_input(d) THEN
        /\ reply' = "invalid"
        /\ UNCHANGED request_queue
    ELSE IF refusal # "none" THEN
        /\ reply' = refusal
        /\ UNCHANGED request_queue
    ELSE IF Len(request_queue) > QueueLimit THEN
        /\ reply' = "queue_full"
        /\ UNCHANGED request_queue
    ELSE
        /\ request_queue' = Append(request_queue, Request(d, excel))
        /\ reply' = "accepted"

\* The admission steps both producers share: validate_input, the producer's
\* own refusal, `if request_queue.qsize() >= 10`, `await request_queue.put`.
\* The queue is unbounded, so put never suspends: check and put are one step
\* of the event loop.
Admit(d, excel, refusal) ==
    IF ~validate_input(d) THEN
        /\ reply' = "invalid"
        /\ UNCHANGED request_queue
    ELSE IF refusal # "none" THEN
        /\ reply' = refusal
        /\ UNCHANGED request_queue
    ELSE IF Len(request_queue) >= QueueLimit THEN
        /\ reply' = "queue_full"
        /\ UNCHANGED request_queue
    ELSE
        /\ request_queue' = Append(request_queue, Request(d, excel))
        /\ reply' = "accepted"

\* Mutant: the dialogue queues a query without asking for the tax identifier.
process_collected_input_AnyQuery(d) ==
    /\ Admit(d, FALSE, "none")
    /\ UNCHANGED <<worker_pc, worker_item, refresh_pc, refresh_records,
                   fetchVars, serviceVars, lookupVars>>

\* process_collected_input: the "submit" button of the manual dialogue.
process_collected_input(d) ==
    /\ Admit(d, FALSE, IF Present(d, "inn") THEN "none" ELSE "need_inn")
    /\ UNCHANGED <<worker_pc, worker_item, refresh_pc, refresh_records,
                   fetchVars, serviceVars, lookupVars>>

\* handle_message, one iteration of the loop over the spreadsheet's rows; a
\* refused row is recorded in `errors`, which the summary reply reports.
ExcelRow(d) ==
    /\ Admit(d, TRUE, "none")
    /\ UNCHANGED <<worker_pc, worker_item, refresh_pc, refresh_records,
                   fetchVars, serviceVars, lookupVars>>

\* worker: data, update, is_excel = await request_queue.get()
WorkerGet ==
    /\ worker_pc = "get"
    /\ request_queue # <<>>
    /\ worker_item' = Head(request_queue)
    /\ request_queue' = Tail(request_queue)
    /\ worker_pc' = "processing"
    /\ UNCHANGED <<reply, refresh_pc, refresh_records, fetchVars, serviceVars, lookupVars>>

\* The results of a lookup all of whose calls end with status st.
CompleteResults(d, st) ==
    [i \in 1..Len(BuildTasks(d)) |-> Outcome(BuildTasks(d)[i], st)]

\* The record such a lookup hands to save_to_db (lines 673-751, 111-187).
LookupRecord(d, st) ==
    Assigned(InitialRecord(d), Assignments(d), CompleteResults(d, st),
             Len(Assignments(d)))

\* process_single_request / process_excel_row returns (after save_to_db, or
\* after its own except clause without a save); request_queue.task_done().
\* st is the status the sources answered with.
WorkerFinish(saved, st) ==
    /\ worker_pc = "processing"
    /\ db' = IF saved THEN save_to_db(db, LookupRecord(worker_item.data, st))
             ELSE db
    /\ worker_item' = NoRequest
    /\ worker_pc' = "get"
    /\ UNCHANGED <<request_queue, reply, refresh_pc, refresh_records, fetchVars, serviceVars,
                   l_pc, data, is_excel, tasks, results, collected_data, log_file>>

\* An exception leaves process_* (a Telegram reply outside its try block or
\* inside its except clause fails): except Exception in worker, sleep(2).
WorkerException ==
    /\ worker_pc = "processing"
    /\ worker_item' = NoRequest
    /\ worker_pc' = "sleep"
    /\ UNCHANGED <<request_queue, reply, refresh_pc, refresh_records, fetchVars, serviceVars,
                   lookupVars>>

\* Mutant: the worker task ends with the exception instead of sleeping.
WorkerWake_Stops ==
    /\ worker_pc = "sleep"
    /\ worker_pc' = "stopped"
    /\ UNCHANGED <<request_queue, reply, worker_item, refresh_pc,
                   refresh_records, fetchVars, serviceVars, lookupVars>>

\* await asyncio.sleep(2) ends; the loop starts over.
WorkerWake ==
    /\ worker_pc = "sleep"
    /\ worker_pc' = "get"
    /\ UNCHANGED <<request_queue, reply, worker_item, refresh_pc,
                   refresh_records, fetchVars, serviceVars, lookupVars>>

\* Sequences listing every element of S once (the row order of a SELECT
\* without ORDER BY).
Listings(S) ==
    {q \in UNION {[1..n -> S] : n \in {Cardinality(S)}} :
        \A x \in S : \E i \in DOMAIN q : q[i] = x}

\* SELECT inn, fio, vin, sts, grz FROM debtors: the identifiers of a row.
Snapshot(row) == [k \in Identifiers |-> row[k][1]]

\* update_db_records, started by the scheduler: the SELECT, then the first
\* record's source calls are awaited.
RefreshStart ==
    /\ refresh_pc = "idle"
    /\ db # {}
    /\ refresh_records' \in Listings({Snapshot(row) : row \in db})
    /\ refresh_pc' = "fetching"
    /\ UNCHANGED <<request_queue, reply, worker_pc, worker_item, fetchVars, serviceVars,
                   lookupVars>>

\* The placeholder of lines 428-431.
RefreshError == <<"json", Outcome("update_db_records", "error")>>

\* new_data of lines 373-431 for the identifiers of one row. The calls are
\* awaited one after the other; st is the status they answer with, or
\* "exception" when the first of them raises: every source field that is
\* still empty then gets the error placeholder.
RefreshedRecord(snap, st) ==
    IF st = "exception"
    THEN [f \in Identifiers \cup SourceFields |->
            IF f \in SourceFields /\ InitialRecord(snap)[f] = EmptyString
                /\ BuildTasks(snap) # <<>>
            THEN RefreshError
            ELSE InitialRecord(snap)[f]]
    ELSE LookupRecord(snap, st)

\* Mutant: every source field is taken for changed.
Changes_EveryField(table, new_data) == SourceFields

\* Lines 433-438: the source fields that differ from the stored row.
Changes(table, new_data) ==
    {f \in SourceFields :
        get_from_db(table, new_data["inn"][1])[f] # new_data[f]}

\* changes of lines 433-438: field -> (stored value, new value); the entry
\* log_updates appends for it.
LogEntry(table, new_data) ==
    [inn |-> new_data["inn"][1],
     changes |-> [f \in Changes(table, new_data) |->
                     <<get_from_db(table, new_data["inn"][1])[f], new_data[f]>>]]

\* log_updates: one entry is appended to updates.log.
log_updates(log, entry) == Append(log, entry)

\* Entries the model lets updates.log grow to.
MaxLogged == 1

\* The awaited source calls of the current record end; the row is compared
\* with the stored one and, when a source field differs, written back and
\* the difference logged; the loop goes on with the next record.
RefreshRecordDone(st) ==
    /\ refresh_pc = "fetching"
    /\ LET new_data == RefreshedRecord(Head(refresh_records), st)
       IN  IF Changes(db, new_data) # {}
           THEN /\ Len(log_file) < MaxLogged
                /\ db' = save_to_db(db, new_data)
                /\ log_file' = log_updates(log_file, LogEntry(db, new_data))
           ELSE UNCHANGED <<db, log_file>>
    /\ refresh_records' = Tail(refresh_records)
    /\ refresh_pc' = IF Tail(refresh_records) = <<>> THEN "idle" ELSE "fetching"
    /\ UNCHANGED <<request_queue, reply, worker_pc, worker_item, fetchVars, serviceVars,
                   l_pc, data, is_excel, tasks, results, collected_data>>

-----------------------------------------------------------------------------
(* The source services (src/parsers): one request to a gateway and the       *)
(* scraper call it makes.                                                    *)

\* gibdd_auto and gibdd_fines launch a browser of their own and validate the
\* identifier inside the scraper; the other six attach to a running browser.
GibddServices == {"gibdd_auto", "gibdd_fines"}

\* get_info_nalog and get_pledge_info close page, context and browser in a
\* `finally` inside the attempt loop.
ClosesPerAttempt == {"nalog", "pledge"}

max_retries == 4
scraper_max_attempts == 3
max_captcha_attempts == 2

\* How many times the scraper calls page.goto at most (its attempt loop).
Budget(svc) ==
    IF svc \in GibddServices THEN max_retries
    ELSE IF svc \in {"osago", "nalog", "pledge"} THEN scraper_max_attempts
    ELSE 1

\* The request body as the endpoint sees it: the identifier fields present
\* and well-formed, present and malformed, well-formed but followed by a line
\* feed ("7701234567\n"), absent (or empty), a well-formed name with an
\* empty birth date (probate), or a body that request.get_json() cannot
\* read.
Payloads ==
    {"valid", "malformed", "line_feed", "absent", "no_birth_date", "not_json"}

\* The bodies a service can be sent.
PayloadsOf(svc) ==
    IF svc = "probate" THEN Payloads ELSE Payloads \ {"no_birth_date"}

\* Pages, browsing context and browser connection the invocation holds open.
Closed == [browser |-> FALSE, context |-> FALSE, pages |-> 0]

\* page.close()
PageClose(open) == [open EXCEPT !.pages = IF @ > 0 THEN @ - 1 ELSE 0]

\* browser.close(): ends the connection (or the launched browser) with the
\* contexts created through it and their pages. get_probate_case opens its
\* page in browser.contexts[0], the running browser's own context, which
\* outlives the connection.
BrowserClose(svc, open) ==
    [browser |-> FALSE, context |-> FALSE,
     pages |-> IF svc = "probate" THEN open.pages ELSE 0]

\* Mutant: the playwright driver is left running when the scraper exits.
PlaywrightExit_LeavesDriver(svc, open) == open

\* Leaving `async with async_playwright()`: the driver stops, which ends the
\* connection or the launched browser.
PlaywrightExit(svc, open) == BrowserClose(svc, open)

\* page.close(); context.close(); browser.close()
CloseAll(svc, open) ==
    BrowserClose(svc, [PageClose(open) EXCEPT !.context = FALSE])

\* What the scraper returns: a dict, or for get_probate_case the JSON text of
\* one (json.dumps); origin names the return statement.
ScrapeRecord(st, why) == [status |-> st, origin |-> why]

NoScrape == <<"none", ScrapeRecord("none", "none")>>

\* solve_captcha has not polled.
NoPolls == [n |-> 0, slept |-> 0, solved |-> FALSE]

\* Mutant: get_gibdd_info returns `result` as initialised (None) when the
\* attempts are exhausted.
ReturnValue_NoneWhenExhausted(svc, rec) ==
    IF rec.origin = "exhausted" /\ svc \in GibddServices
    THEN <<"dict", ScrapeRecord("none", "none")>>
    ELSE IF svc = "probate" THEN json_dumps(rec) ELSE <<"dict", rec>>

ReturnValue(svc, rec) ==
    IF svc = "probate" THEN json_dumps(rec) ELSE <<"dict", rec>>

\* json.loads of a JSON text; a dict is used as it is.
json_loads(v) == v[2]

\* HTTP response bodies: jsonify of a dict with a status, jsonify of
\* {"error": ...} or {"results": ...} (no status), Flask's own error page.
JsonBody(st) == [json |-> TRUE, status |-> st]

ErrorOnlyBody == [json |-> TRUE, status |-> "absent"]

HtmlPage == [json |-> FALSE, status |-> "absent"]

NoResponse == [code |-> 0, body |-> [json |-> FALSE, status |-> "none"]]

ScrapeIdle ==
    /\ s_service = "none"
    /\ s_input = "valid"
    /\ s_post = 0
    /\ s_pc = "idle"
    /\ s_attempt = 1
    /\ s_captcha = 0
    /\ s_poll = NoPolls
    /\ s_loads = 0
    /\ s_launches = 0
    /\ s_open = Closed
    /\ s_result = NoScrape
    /\ s_last = NoScrape[2]
    /\ s_response = NoResponse

\* A source-service process that serves no request: GLOBAL_SEMAPHORE is a
\* module-level asyncio.Semaphore(10), bound to no event loop until an acquire
\* has to wait.
GlobalCeiling == 10

\* Bound of the model: requests one source-service process serves.
MaxRequests == 3

Loops == 1 .. MaxRequests

Unused ==
    [size |-> 0, batch |-> FALSE, new |-> 0, waiting |-> 0, open |-> 0,
     done |-> 0, failed |-> 0, pages |-> 0]

LimiterIdle ==
    /\ p_service = "none"
    /\ requests = [r \in Loops |-> Unused]
    /\ sem_value = GlobalCeiling
    /\ sem_loop = 0
    /\ sem_handed = 0
    /\ sem_awake = FALSE

ServiceIdle == ScrapeIdle /\ LimiterIdle

otherVars == <<fetchVars, lookupVars, queueVars, limiterVars>>

Respond(code, body) ==
    /\ s_pc' = "responded"
    /\ s_response' = [code |-> code, body |-> body]

\* A return statement; open is what is still open after the closes the code
\* ran on the way.
Return(rec, open) ==
    /\ s_pc' = "returned"
    /\ s_last' = rec
    /\ s_result' = ReturnValue(s_service, rec)
    /\ s_open' = PlaywrightExit(s_service, open)

\* An exception leaves the scraper.
Raise(open) ==
    /\ s_pc' = "raised"
    /\ s_open' = PlaywrightExit(s_service, open)
    /\ UNCHANGED <<s_result, s_last>>

\* data = request.get_json() is outside every try: Flask answers with its own
\* error page.
GetJsonFails ==
    /\ s_pc = "request"
    /\ s_input = "not_json"
    /\ \E code \in {400, 415, 500} : Respond(code, HtmlPage)
    /\ UNCHANGED <<s_service, s_input, s_post, s_attempt, s_captcha, s_poll, s_loads,
                   s_launches, s_open, s_result, s_last, otherVars>>

\* The endpoint's check of the identifier fields. fines_endpoint checks only
\* that the three fields are given.
\* The endpoint's check of the identifier. re.match(r'^...$', v): `$` matches
\* before a final line feed too, so the value followed by "\n" passes;
\* gibdd_endpoint compares len(vin) with 17 and refuses it; fines_endpoint
\* checks only that the three fields are there.
Accepted(svc, input) ==
    \/ input = "valid"
    \/ svc = "gibdd_fines" /\ input = "malformed"
    \/ svc # "gibdd_auto" /\ input = "line_feed"

GatewayRejects ==
    /\ s_pc = "request"
    /\ s_input \in {"malformed", "line_feed", "absent", "no_birth_date"}
    /\ ~Accepted(s_service, s_input)
    /\ Respond(400, IF s_service = "probate" THEN ErrorOnlyBody
                    ELSE JsonBody("error"))
    /\ UNCHANGED <<s_service, s_input, s_post, s_attempt, s_captcha, s_poll, s_loads,
                   s_launches, s_open, s_result, s_last, otherVars>>

\* The endpoint calls the scraper; get_gibdd_info and get_fines_info check
\* the identifier again before they launch the browser (get_fines_info with
\* re.match and `$`, which the plate or document number followed by a line
\* feed passes).
Invoke ==
    /\ s_pc = "request"
    /\ Accepted(s_service, s_input)
    /\ IF s_input = "malformed"
       THEN /\ s_pc' = "returned"
            /\ s_result' = ReturnValue(s_service, ScrapeRecord("error", "validation"))
       ELSE /\ s_pc' = "acquire"
            /\ UNCHANGED s_result
    /\ UNCHANGED s_last
    /\ UNCHANGED <<s_service, s_input, s_post, s_attempt, s_captcha, s_poll, s_loads,
                   s_launches, s_open, s_response, otherVars>>

\* launch / connect_over_cdp, new_context, new_page. The six attaching
\* scrapers catch PlaywrightError here and return an error; in the gibdd
\* scrapers the calls are outside every try. get_fines_info opens its page in
\* the attempt loop; get_probate_case opens no context.
Acquire(outcome) ==
    /\ s_pc = "acquire"
    /\ outcome = "no_context" => s_service # "probate"
    /\ outcome = "no_page" => s_service # "gibdd_fines"
    /\ s_launches' = IF outcome = "no_browser" THEN s_launches ELSE s_launches + 1
    /\ LET got == [browser |-> outcome # "no_browser",
                   context |-> outcome \in {"ok", "no_page"} /\ s_service # "probate",
                   pages |-> IF outcome = "ok" /\ s_service # "gibdd_fines"
                             THEN 1 ELSE 0]
       IN  IF outcome = "ok"
           THEN s_pc' = "attempt" /\ s_open' = got /\ UNCHANGED <<s_result, s_last>>
           ELSE IF s_service \in GibddServices
                THEN Raise(got)
                ELSE Return(ScrapeRecord("error", "acquire"), got)
    /\ UNCHANGED <<s_service, s_input, s_post, s_attempt, s_captcha, s_poll, s_loads,
                   s_response, otherVars>>

\* The closes the code runs when it leaves the attempt loop with a result:
\* gibdd_fines closes the page and then the browser, gibdd_auto the browser,
\* the others run their finally.
ClosesOnResult(svc, open) ==
    IF svc \in GibddServices THEN BrowserClose(svc, open) ELSE CloseAll(svc, open)

\* `result` after an attempt that is to be repeated: the record with retry
\* True that perform_search (or attempt_osago_check) returned, or, when the
\* attempt ended in an exception, what it was before.
AskedAgain(caught) ==
    IF caught THEN s_last ELSE ScrapeRecord("error", "retry")

\* Mutant: the budget is compared one attempt late.
Retryable_OneMore(open, caught) ==
    IF s_attempt <= Budget(s_service)
    THEN /\ UNCHANGED s_result
         /\ s_last' = AskedAgain(caught)
         /\ s_open' = open
         /\ IF s_service = "gibdd_fines"
            THEN s_pc' = "attempt" /\ s_attempt' = s_attempt + 1
            ELSE s_pc' = "wait" /\ UNCHANGED s_attempt
    ELSE /\ Return(ScrapeRecord("error", "exhausted"),
                   ClosesOnResult(s_service, open))
         /\ UNCHANGED s_attempt

\* Mutant: on the last attempt `result` is returned as the attempts left it.
Retryable_KeepsResult(open, caught) ==
    IF s_attempt < Budget(s_service)
    THEN /\ UNCHANGED s_result
         /\ s_last' = AskedAgain(caught)
         /\ s_open' = open
         /\ IF s_service = "gibdd_fines"
            THEN s_pc' = "attempt" /\ s_attempt' = s_attempt + 1
            ELSE s_pc' = "wait" /\ UNCHANGED s_attempt
    ELSE /\ Return(AskedAgain(caught), ClosesOnResult(s_service, open))
         /\ UNCHANGED s_attempt

\* A failed attempt that may be repeated, at attempt number s_attempt with
\* `open` open: the last one ends in an error dict, an earlier one leads to
\* the next attempt (get_fines_info sleeps, the others wait on the page).
\* get_info_osago waits after a retryable result of the last attempt too.
Retryable(open, caught) ==
    IF s_attempt < Budget(s_service)
    THEN /\ UNCHANGED s_result
         /\ s_last' = AskedAgain(caught)
         /\ s_open' = open
         /\ IF s_service = "gibdd_fines"
            THEN s_pc' = "attempt" /\ s_attempt' = s_attempt + 1
            ELSE s_pc' = "wait" /\ UNCHANGED s_attempt
    ELSE IF s_service = "osago" /\ ~caught
         THEN /\ s_pc' = "wait"
              /\ s_open' = open
              /\ s_last' = AskedAgain(caught)
              /\ UNCHANGED <<s_result, s_attempt>>
         ELSE /\ Return(ScrapeRecord("error", "exhausted"),
                        ClosesOnResult(s_service, open))
              /\ UNCHANGED s_attempt

\* Mutant: a result that is not flagged for retry is retried all the same.
NonRetryable_Retried(rec, open) == Retryable(open, FALSE)

\* A result that is neither a success nor flagged for retry (`else: break`
\* of the gibdd scrapers, `if not can_retry: return result` of
\* get_info_osago, a return statement inside the try of the others): the
\* scraper returns it as it is.
NonRetryable(rec, open) ==
    /\ Return(rec, ClosesOnResult(s_service, open))
    /\ UNCHANGED s_attempt

\* Mutant: the limit message is taken for a failure worth another attempt.
LimitExceeded_Retried(open) == Retryable(open, FALSE)

\* The site says the request limit is exceeded (div.infoBlock of nsis.ru,
\* div.alert of pb.nalog.ru): the error is returned from inside the loop.
LimitExceeded(open) ==
    /\ Return(ScrapeRecord("error", "throttled"), ClosesOnResult(s_service, open))
    /\ UNCHANGED s_attempt

\* The site says it has no records for the subject: perform_search of
\* gibdd_auto answers no_data, the other scrapers success with an empty
\* payload (the text of the site's message in get_probate_case).
NoRecords(svc) ==
    ScrapeRecord(IF svc = "gibdd_auto" THEN "no_data" ELSE "success",
                 "no_records")

\* The results are on the page and the extraction finds no field in them:
\* perform_search of gibdd_auto (after max_parse_attempts passes) and
\* attempt_osago_check answer with an error that asks for another attempt,
\* get_info_nalog returns success with `results` empty.
NothingExtracted(open) ==
    IF s_service = "nalog"
    THEN /\ Return(ScrapeRecord("success", "empty"),
                   ClosesOnResult(s_service, open))
         /\ UNCHANGED s_attempt
    ELSE Retryable(open, FALSE)

\* One pass of the attempt loop: page.goto and what follows it.
\*   success / error: a result that ends the loop;
\*   no_records: the site says there is nothing on the subject (in
\*     gibdd_fines that message is the text of a success);
\*   nothing_extracted: results shown, no field extracted;
\*   throttled (nsis, pb_nalog): the site says the request limit is exceeded;
\*   retry: a result that asks for another attempt;
\*   captcha (gibdd_auto, gibdd_fines): the search form is submitted and the
\*     CAPTCHA dialog is up;
\*   playwright_error: PlaywrightError (a timeout is one);
\*   exception: any other exception;
\*   no_page (gibdd_fines): browser_context.new_page() raises.
Attempt(outcome) ==
    /\ s_pc = "attempt"
    /\ outcome = "no_page" => s_service = "gibdd_fines"
    /\ outcome = "captcha" => s_service \in GibddServices
    /\ outcome = "retry" => s_service \in {"gibdd_auto", "osago", "nalog"}
    /\ outcome = "throttled" => s_service \in {"osago", "nalog"}
    /\ outcome = "no_records" => s_service # "gibdd_fines"
    /\ outcome = "nothing_extracted" => s_service \in {"gibdd_auto", "osago", "nalog"}
    \* after the first attempt's finally the page is closed: goto raises
    /\ (s_open.pages = 0 /\ s_service # "gibdd_fines") => outcome = "playwright_error"
    /\ s_loads' = IF outcome = "no_page" THEN s_loads ELSE s_loads + 1
    /\ LET open == IF s_service = "gibdd_fines" /\ outcome # "no_page"
                   THEN [s_open EXCEPT !.pages = @ + 1]
                   ELSE s_open
           catchesAll == s_service \in GibddServices \cup {"osago"}
       IN  CASE outcome = "no_page" ->
                  Raise(open) /\ UNCHANGED <<s_attempt, s_captcha>>
             [] outcome = "success" ->
                  /\ Return(ScrapeRecord("success", "result"),
                            ClosesOnResult(s_service, open))
                  /\ UNCHANGED <<s_attempt, s_captcha>>
             [] outcome = "error" ->
                  /\ NonRetryable(ScrapeRecord("error", "result"), open)
                  /\ UNCHANGED s_captcha
             [] outcome = "throttled" ->
                  LimitExceeded(open) /\ UNCHANGED s_captcha
             [] outcome = "no_records" ->
                  /\ NonRetryable(NoRecords(s_service), open)
                  /\ UNCHANGED s_captcha
             [] outcome = "nothing_extracted" ->
                  NothingExtracted(open) /\ UNCHANGED s_captcha
             [] outcome = "captcha" ->
                  /\ s_pc' = "search"
                  /\ s_captcha' = 0
                  /\ s_open' = open
                  /\ UNCHANGED <<s_attempt, s_result, s_last>>
             [] outcome = "retry" ->
                  Retryable(open, FALSE) /\ UNCHANGED s_captcha
             [] outcome = "playwright_error" ->
                  /\ IF Budget(s_service) = 1
                     THEN /\ Return(ScrapeRecord("error", "playwright"),
                                    CloseAll(s_service, open))
                          /\ UNCHANGED s_attempt
                     ELSE IF s_service = "gibdd_fines"
                          THEN Retryable(PageClose(open), TRUE)
                          ELSE Retryable(open, s_service # "osago")
                  /\ UNCHANGED s_captcha
             [] outcome = "exception" ->
                  /\ IF catchesAll
                     THEN IF s_service = "gibdd_fines"
                          THEN Retryable(PageClose(open), TRUE)
                          ELSE Retryable(open, TRUE)
                     ELSE Raise(CloseAll(s_service, open)) /\ UNCHANGED s_attempt
                  /\ UNCHANGED s_captcha
    /\ s_poll' = NoPolls
    /\ UNCHANGED <<s_service, s_input, s_post, s_launches, s_response, otherVars>>

\* Polls of 2captcha's res.php one solve_captcha call makes at most
\* (max_attempts of solve_captcha).
MaxPolls_OneMore(svc) == IF svc = "gibdd_auto" THEN 11 ELSE 4

MaxPolls(svc) == IF svc = "gibdd_auto" THEN 10 ELSE 3

\* asyncio.sleep(5) of the polling loop.
PollDelay == 5

\* Passes of perform_search's CAPTCHA loop: max_captcha_attempts in
\* gibdd_fines; perform_search of gibdd_auto calls solve_captcha once.
CaptchaAttempts(svc) == IF svc = "gibdd_fines" THEN max_captcha_attempts ELSE 1

\* One pass of solve_captcha's polling loop: GET res.php.
\*   solved: status 1, the solution is returned;
\*   not_ready: HTTP 200 without a solution, followed by asyncio.sleep(5);
\*   http_error: another HTTP status, `continue` without a pause.
Poll(answer) ==
    /\ s_pc = "search"
    /\ ~s_poll.solved
    /\ s_poll.n < MaxPolls(s_service)
    /\ s_poll' = [n |-> s_poll.n + 1,
                  slept |-> IF answer = "not_ready"
                            THEN s_poll.slept + PollDelay ELSE s_poll.slept,
                  solved |-> answer = "solved"]
    /\ UNCHANGED <<s_service, s_input, s_post, s_pc, s_attempt, s_captcha,
                   s_loads, s_launches, s_open, s_result, s_last, s_response,
                   otherVars>>

\* Mutant: the CAPTCHA loop of perform_search does not count its passes.
Captcha_PassesForever(solved) ==
    /\ s_pc = "search"
    /\ solved = s_poll.solved
    /\ IF solved
       THEN /\ Return(ScrapeRecord("success", "result"),
                      BrowserClose(s_service, PageClose(s_open)))
            /\ UNCHANGED <<s_attempt, s_captcha, s_poll>>
       ELSE /\ s_captcha' = 0
            /\ s_poll' = NoPolls
            /\ UNCHANGED <<s_pc, s_attempt, s_open, s_result, s_last>>
    /\ UNCHANGED <<s_service, s_input, s_post, s_loads, s_launches, s_response, otherVars>>

\* perform_search after solve_captcha has returned: with the solution the
\* search gives the result; without one (the polls are used up, or the image
\* could not be read or submitted, or a request raised) gibdd_fines makes its
\* second pass, and the last pass ends in a result that asks for another
\* attempt (retry: True), which leaves the page open unless it was the last
\* attempt.
Captcha(solved) ==
    /\ s_pc = "search"
    /\ solved = s_poll.solved
    /\ IF solved
       THEN /\ Return(ScrapeRecord("success", "result"),
                      BrowserClose(s_service, PageClose(s_open)))
            /\ UNCHANGED <<s_attempt, s_captcha, s_poll>>
       ELSE IF s_captcha + 1 < CaptchaAttempts(s_service)
            THEN /\ s_captcha' = s_captcha + 1
                 /\ s_poll' = NoPolls
                 /\ UNCHANGED <<s_pc, s_attempt, s_open, s_result, s_last>>
            ELSE /\ s_captcha' = s_captcha + 1
                 /\ Retryable(s_open, FALSE)
                 /\ UNCHANGED s_poll
    /\ UNCHANGED <<s_service, s_input, s_post, s_loads, s_launches, s_response, otherVars>>

\* page.wait_for_timeout(3000) between attempts. It can raise (the page has
\* crashed or is already closed): get_info_osago catches that on its last
\* attempt, everywhere else the exception leaves the scraper. In
\* get_info_nalog and get_pledge_info `continue` runs the finally, which
\* closes page, context and browser before the next attempt.
Wait(ok) ==
    /\ s_pc = "wait"
    /\ IF s_attempt = Budget(s_service)
       THEN /\ Return(ScrapeRecord("error", "exhausted"), CloseAll(s_service, s_open))
            /\ UNCHANGED s_attempt
       ELSE IF ok
            THEN /\ s_pc' = "attempt"
                 /\ s_attempt' = s_attempt + 1
                 /\ s_open' = IF s_service \in ClosesPerAttempt
                              THEN CloseAll(s_service, s_open)
                              ELSE s_open
                 /\ UNCHANGED <<s_result, s_last>>
            ELSE /\ Raise(IF s_service = "gibdd_auto" THEN s_open
                          ELSE CloseAll(s_service, s_open))
                 /\ UNCHANGED s_attempt
    /\ UNCHANGED <<s_service, s_input, s_post, s_captcha, s_poll, s_loads, s_launches,
                   s_response, otherVars>>

\* The endpoint answers: jsonify(result) (json.loads first in
\* probate_endpoint), or its except branch; the gibdd endpoints have no
\* try, so Flask answers an escaping exception with its own error page.
GatewayResponds ==
    /\ s_pc \in {"returned", "raised"}
    /\ IF s_pc = "returned"
       THEN Respond(200, JsonBody(json_loads(s_result).status))
       ELSE Respond(500, IF s_service \in GibddServices THEN HtmlPage
                         ELSE IF s_service = "probate" THEN ErrorOnlyBody
                         ELSE JsonBody("error"))
    /\ UNCHANGED <<s_service, s_input, s_post, s_attempt, s_captcha, s_poll, s_loads,
                   s_launches, s_open, s_result, s_last, otherVars>>

-----------------------------------------------------------------------------
(* One source-service process under concurrent requests. app.run serves      *)
(* every request in a thread of its own, and Flask runs an async view on an  *)
(* event loop of that thread, so every request has its own event loop; the   *)
(* scrapes of one batch request are gathered on the one loop of that         *)
(* request. GLOBAL_SEMAPHORE is one asyncio.Semaphore(10) of the module,     *)
(* shared by all of them. The semaphore process_multiple_* creates with      *)
(* MAX_CONCURRENT_REQUESTS and the one the endpoint creates for a single     *)
(* request are passed to the scraper, which never acquires them; the two     *)
(* gibdd scrapers acquire no semaphore at all and have no batch field.       *)

MAX_CONCURRENT_REQUESTS == 2

\* Bounds of the model: subjects in the largest batch, and scrapes of all
\* requests together.
MaxBatch == 10

MaxScrapes == 12

BatchSizes == {MAX_CONCURRENT_REQUESTS + 1, MaxBatch}

Scrapes(reqs) ==
    LET RECURSIVE Sum(_)
        Sum(r) == IF r = 0 THEN 0 ELSE reqs[r].size + Sum(r - 1)
    IN  Sum(MaxRequests)

OpenPages(reqs) ==
    LET RECURSIVE Sum(_)
        Sum(r) == IF r = 0 THEN 0 ELSE reqs[r].pages + Sum(r - 1)
    IN  Sum(MaxRequests)

\* A request arrives: a single subject, or a batch of k subjects whose
\* scrapes process_multiple_* gathers.
Arrive(r, k, batch) ==
    /\ p_service # "none"
    /\ requests[r].size = 0
    /\ \A q \in Loops : q < r => requests[q].size > 0
    /\ batch => p_service \notin GibddServices /\ k \in BatchSizes
    /\ ~batch => k = 1
    /\ Scrapes(requests) + k <= MaxScrapes
    /\ requests' = [requests EXCEPT ![r] =
                      [Unused EXCEPT !.size = k, !.new = k, !.batch = batch]]
    /\ UNCHANGED <<p_service, sem_value, sem_loop, sem_handed, sem_awake,
                   fetchVars, lookupVars, queueVars, scrapeVars>>

\* Semaphore.locked(): no slot is free, or a waiter is queued.
Locked == sem_value = 0 \/ (sem_loop # 0 /\ requests[sem_loop].waiting > 0)

\* Semaphore._wake_up_next after a change of the value: the first waiter
\* whose future is not yet set takes the slot and its future is set.
WakeUpNext(value, waiting, handed) ==
    IF value > 0 /\ waiting > handed
    THEN [value |-> value - 1, handed |-> handed + 1]
    ELSE [value |-> value, handed |-> handed]

\* A scrape starts: `async with GLOBAL_SEMAPHORE` and the opening of its
\* page (the gibdd scrapers open theirs at once). acquire() takes a slot
\* when the semaphore is not locked; otherwise it binds the semaphore to the
\* running loop if it is bound to none, raises RuntimeError if it is bound
\* to another loop, and else queues a future of the loop and waits.
EnterSemaphore(r) ==
    /\ requests[r].new > 0
    /\ IF p_service \in GibddServices
       THEN /\ requests' = [requests EXCEPT ![r].new = @ - 1, ![r].open = @ + 1,
                                            ![r].pages = @ + 1]
            /\ UNCHANGED <<sem_value, sem_loop>>
       ELSE IF ~Locked
       THEN /\ sem_value' = sem_value - 1
            /\ requests' = [requests EXCEPT ![r].new = @ - 1, ![r].open = @ + 1,
                                            ![r].pages = @ + 1]
            /\ UNCHANGED sem_loop
       ELSE IF sem_loop \in {0, r}
       THEN /\ sem_loop' = r
            /\ requests' = [requests EXCEPT ![r].new = @ - 1, ![r].waiting = @ + 1]
            /\ UNCHANGED sem_value
       ELSE /\ requests' = [requests EXCEPT ![r].new = @ - 1, ![r].failed = @ + 1]
            /\ UNCHANGED <<sem_value, sem_loop>>
    /\ UNCHANGED <<p_service, sem_handed, sem_awake,
                   fetchVars, lookupVars, queueVars, scrapeVars>>

\* get_fines_info: an attempt that asks for another one leaves its page
\* open, and the next attempt opens a new page.
OpenAnotherPage(r) ==
    /\ p_service = "gibdd_fines"
    /\ requests[r].open > 0
    /\ requests[r].pages < max_retries
    /\ requests' = [requests EXCEPT ![r].pages = @ + 1]
    /\ UNCHANGED <<p_service, sem_value, sem_loop, sem_handed, sem_awake,
                   fetchVars, lookupVars, queueVars, scrapeVars>>

\* Mutant: a scrape that ends keeps its slot.
LeaveSemaphore_KeepsSlot(r) ==
    /\ requests[r].open > 0
    /\ requests' = [requests EXCEPT ![r].open = @ - 1, ![r].done = @ + 1,
                                    ![r].pages = IF @ > 0 THEN @ - 1 ELSE 0]
    /\ UNCHANGED <<p_service, sem_value, sem_loop, sem_handed, sem_awake,
                   fetchVars, lookupVars, queueVars, scrapeVars>>

\* A scrape ends, its pages are closed and it leaves the `async with`:
\* release() adds the slot and wakes the next waiter. Setting the future
\* schedules the waiter on its loop with call_soon; from the thread of
\* another request that does not wake the waiter's loop.
LeaveSemaphore(r) ==
    /\ requests[r].open > 0
    /\ IF p_service \in GibddServices
       THEN /\ requests' = [requests EXCEPT ![r].open = @ - 1, ![r].done = @ + 1,
                                            ![r].pages = 0]
            /\ UNCHANGED <<sem_value, sem_handed, sem_awake>>
       ELSE LET woken == WakeUpNext(sem_value + 1,
                                    IF sem_loop = 0 THEN 0
                                    ELSE requests[sem_loop].waiting,
                                    sem_handed)
            IN  /\ requests' = [requests EXCEPT ![r].open = @ - 1,
                                                ![r].done = @ + 1,
                                                ![r].pages = @ - 1]
                /\ sem_value' = woken.value
                /\ sem_handed' = woken.handed
                /\ sem_awake' = (sem_awake \/ (woken.handed > sem_handed /\ r = sem_loop))
    /\ UNCHANGED <<p_service, sem_loop,
                   fetchVars, lookupVars, queueVars, scrapeVars>>

\* The loop of request r runs the callback of a waiter whose future is set:
\* the waiter leaves acquire() with its slot and opens its page. The loop
\* runs it when it was scheduled from its own thread, or when another scrape
\* of the request keeps the loop turning.
Resume(r) ==
    /\ r = sem_loop
    /\ sem_handed > 0
    /\ sem_awake \/ requests[r].open > 0
    /\ LET woken == WakeUpNext(sem_value, requests[r].waiting - 1, sem_handed - 1)
       IN  /\ sem_value' = woken.value
           /\ sem_handed' = woken.handed
           /\ sem_awake' = (woken.handed > 0)
    /\ requests' = [requests EXCEPT ![r].waiting = @ - 1, ![r].open = @ + 1,
                                    ![r].pages = @ + 1]
    /\ UNCHANGED <<p_service, sem_loop,
                   fetchVars, lookupVars, queueVars, scrapeVars>>

-----------------------------------------------------------------------------
(* SpecFetch: one call of fetch_service_data for any service.                *)

InitFetch ==
    /\ \E svc \in SERVICE_URLS :
        /\ f_service = svc
        /\ f_pc = "post"
    /\ attempt = 1
    /\ elapsed = 0
    /\ posts = 0
    /\ nSentinel = 0
    /\ nRetryable = 0
    /\ nFailed = 0
    /\ f_result = NoResult
    /\ LookupVarsIdle
    /\ QueueVarsIdle
    /\ ServiceIdle

NextFetch ==
    \/ PostNon200
    \/ PostSentinel
    \/ PostRetryableError
    \/ PostFinal
    \/ PostInvalid
    \/ PostClientError
    \/ PostTimeout
    \/ PostBadBody
    \/ PollWait
    \/ Backoff

SpecFetch == InitFetch /\ [][NextFetch]_vars

\* The event loop resumes the coroutine after every sleep and every POST ends
\* (with a response or with the per-attempt timeout).
FairSpecFetch == SpecFetch /\ WF_vars(NextFetch)

-----------------------------------------------------------------------------
(* SpecLookup: one lookup, for any request a handler can have queued.        *)

InitLookup ==
    /\ FetchIdle
    /\ QueueVarsIdle
    /\ ServiceIdle
    /\ l_pc = "start"
    /\ \/ data \in ManualRequests /\ is_excel = FALSE
       \/ data \in ExcelRequests /\ is_excel = TRUE
    /\ tasks = <<>>
    /\ results = <<>>
    /\ collected_data = NoRecord
    /\ db = EmptyTable
    /\ log_file = <<>>

NextLookup ==
    \/ StartLookup
    \/ \E i \in 1..Cardinality(SERVICE_URLS), st \in TaskStatuses : TaskDone(i, st)
    \/ MergeAndSave
    \/ MergeRaises

SpecLookup == InitLookup /\ [][NextLookup]_vars

-----------------------------------------------------------------------------
(* SpecDirect: process_single_request / process_excel_row called with a dict *)
(* that has at most one identifier, each key missing, empty or well-formed   *)
(* (the handlers only queue dicts with a tax identifier; the functions       *)
(* themselves take any dict).                                                *)

DirectCalls ==
    {d \in AllData :
        /\ \A k \in Identifiers : d[k] # "malformed"
        /\ Cardinality({k \in Identifiers : Present(d, k)}) <= 1}

InitDirect ==
    /\ FetchIdle
    /\ QueueVarsIdle
    /\ ServiceIdle
    /\ l_pc = "start"
    /\ data \in DirectCalls
    /\ is_excel \in BOOLEAN
    /\ tasks = <<>>
    /\ results = <<>>
    /\ collected_data = NoRecord
    /\ db = EmptyTable
    /\ log_file = <<>>

SpecDirect == InitDirect /\ [][NextLookup]_vars

-----------------------------------------------------------------------------
(* SpecScrape: one request to the gateway of any source service.             *)

InitScrape ==
    /\ s_service \in SERVICE_URLS
    /\ s_input \in PayloadsOf(s_service)
    /\ s_post = 0
    /\ s_pc = "request"
    /\ s_attempt = 1
    /\ s_captcha = 0
    /\ s_poll = NoPolls
    /\ s_loads = 0
    /\ s_launches = 0
    /\ s_open = Closed
    /\ s_result = NoScrape
    /\ s_last = NoScrape[2]
    /\ s_response = NoResponse
    /\ LimiterIdle
    /\ FetchIdle
    /\ LookupVarsIdle
    /\ QueueVarsIdle

AcquireOutcomes == {"ok", "no_browser", "no_context", "no_page"}

PollAnswers == {"solved", "not_ready", "http_error"}

AttemptOutcomes ==
    {"success", "error", "throttled", "no_records", "nothing_extracted",
     "retry", "captcha", "playwright_error", "exception", "no_page"}

NextScrape ==
    \/ GetJsonFails
    \/ GatewayRejects
    \/ Invoke
    \/ \E outcome \in AcquireOutcomes : Acquire(outcome)
    \/ \E outcome \in AttemptOutcomes : Attempt(outcome)
    \/ \E answer \in PollAnswers : Poll(answer)
    \/ \E solved \in BOOLEAN : Captcha(solved)
    \/ \E ok \in BOOLEAN : Wait(ok)
    \/ GatewayResponds

SpecScrape == InitScrape /\ [][NextScrape]_vars

\* Every value a call returns: one call of fetch_service_data, or one request
\* to a gateway and its scraper call.
SpecReturns == (InitFetch \/ InitScrape) /\ [][NextFetch \/ NextScrape]_vars

\* The event loop resumes a coroutine after every sleep, and every awaited
\* request, page operation or poll ends, with its answer or with its timeout.
FairSpecReturns == SpecReturns /\ WF_vars(NextFetch \/ NextScrape)

-----------------------------------------------------------------------------
(* SpecLimiter: one source-service process and the requests it serves.       *)

InitLimiter ==
    /\ p_service \in SERVICE_URLS
    /\ requests = [r \in Loops |-> Unused]
    /\ sem_value = GlobalCeiling
    /\ sem_loop = 0
    /\ sem_handed = 0
    /\ sem_awake = FALSE
    /\ ScrapeIdle
    /\ FetchIdle
    /\ LookupVarsIdle
    /\ QueueVarsIdle

NextLimiter ==
    \/ \E r \in Loops, k \in {1} \cup BatchSizes, batch \in BOOLEAN : Arrive(r, k, batch)
    \/ \E r \in Loops : EnterSemaphore(r)
    \/ \E r \in Loops : OpenAnotherPage(r)
    \/ \E r \in Loops : LeaveSemaphore(r)
    \/ \E r \in Loops : Resume(r)

SpecLimiter == InitLimiter /\ [][NextLimiter]_vars

\* Every scrape that has started reaches its semaphore, every scrape that
\* holds a slot ends, and a loop that has a callback to run runs it.
FairSpecLimiter ==
    /\ SpecLimiter
    /\ \A r \in Loops : WF_vars(EnterSemaphore(r))
    /\ \A r \in Loops : WF_vars(LeaveSemaphore(r))
    /\ \A r \in Loops : WF_vars(Resume(r))

-----------------------------------------------------------------------------
(* SpecCall: one call of fetch_service_data together with the gateway it     *)
(* posts to and the scraper behind it, for the six services that are not     *)
(* polled (the two gibdd gateways answer no intermediate response the model  *)
(* of the scraper distinguishes; SpecFetch covers their responses).          *)

\* What process_single_request, process_excel_row and update_db_records can
\* send after validate_input: a tax identifier both sides accept; a VIN of
\* [A-Z0-9]{17}, which is_valid_vin of nsis and reestr_zalogov refuses when
\* it has an I, O or Q; a name with its birth date, or with birth_date "".
CallPayloads(svc) ==
    IF svc \in {"osago", "pledge"} THEN {"valid", "malformed"}
    ELSE IF svc = "probate" THEN {"valid", "no_birth_date"}
    ELSE {"valid"}

\* The gateway is working on the POST that fetch_service_data awaits.
Outstanding == s_post = posts + 1

\* session.post(url, json=payload): the request reaches the endpoint. The
\* payload of a repeated POST is that of the first.
CallPost ==
    /\ f_pc = "post"
    /\ s_post <= posts
    /\ s_service' = f_service
    /\ s_input' \in (IF posts = 0 THEN CallPayloads(f_service) ELSE {s_input})
    /\ s_post' = posts + 1
    /\ s_pc' = "request"
    /\ s_attempt' = 1
    /\ s_captcha' = 0
    /\ s_poll' = NoPolls
    /\ s_loads' = 0
    /\ s_launches' = 0
    /\ s_open' = Closed
    /\ s_result' = NoScrape
    /\ s_last' = NoScrape[2]
    /\ s_response' = NoResponse
    /\ UNCHANGED otherVars

\* The gateway's response arrives: lines 302-351 of fetch_service_data.
CallAnswered ==
    /\ Outstanding
    /\ s_pc = "responded"
    /\ IF s_response.code # 200 THEN PostNon200
       ELSE IF ~s_response.body.json THEN PostBadBody
       ELSE IF s_response.body.status \in FinalStatuses
            THEN /\ PostFinal
                 /\ f_result'.status = s_response.body.status
                 /\ ~f_result'.sentinel
       ELSE PostInvalid

\* No response within `timeout` seconds: the scraper is still at work.
CallTimesOut ==
    /\ Outstanding
    /\ s_pc # "responded"
    /\ PostTimeout

\* The connection fails before a response was read.
CallClientError ==
    /\ s_pc # "responded" \/ ~Outstanding
    /\ PostClientError

InitCall ==
    /\ InitFetch
    /\ f_service \notin PollServices

NextCall ==
    \/ CallPost
    \/ Outstanding /\ GatewayRejects
    \/ Outstanding /\ Invoke
    \/ \E outcome \in AcquireOutcomes : Outstanding /\ Acquire(outcome)
    \/ \E outcome \in AttemptOutcomes : Outstanding /\ Attempt(outcome)
    \/ \E ok \in BOOLEAN : Outstanding /\ Wait(ok)
    \/ Outstanding /\ GatewayResponds
    \/ CallAnswered
    \/ CallTimesOut
    \/ CallClientError
    \/ Backoff

SpecCall == InitCall /\ [][NextCall]_vars

-----------------------------------------------------------------------------
(* SpecQueue: the bot process: two producers, the worker, the refresh job.   *)

Only(k, v) == [NoData EXCEPT ![k] = v]

\* What the manual dialogue submits: a tax identifier alone, a malformed tax
\* identifier, a VIN without a tax identifier.
ManualInputs ==
    {Only("inn", "7701234567"), Only("inn", "malformed"), Only("vin", "valid")}

\* Rows of an uploaded spreadsheet: all five cells filled in, or the tax
\* identifier alone (the other cells empty).
ExcelRows ==
    {[k \in Identifiers |-> IF k = "inn" THEN "500100732259" ELSE "valid"],
     [k \in Identifiers |-> IF k = "inn" THEN "500100732259" ELSE ""]}

InitQueue ==
    /\ FetchIdle
    /\ LookupVarsIdle
    /\ QueueVarsIdle
    /\ ServiceIdle

NextQueue ==
    \/ \E d \in ManualInputs : process_collected_input(d)
    \/ \E d \in ExcelRows : ExcelRow(d)
    \/ WorkerGet
    \/ \E saved \in BOOLEAN : WorkerFinish(saved, "success")
    \/ WorkerException
    \/ WorkerWake
    \/ RefreshStart
    \/ RefreshRecordDone("success")

SpecQueue == InitQueue /\ [][NextQueue]_vars

-----------------------------------------------------------------------------
(* Properties of fetch_service_data (SpecFetch, FairSpecFetch)               *)

Returned == f_pc = "done"

OnlySentinels == posts = nSentinel

OnlyFailures == posts = nFailed

\* C4: a poll-style source that answers the "still processing" sentinel N
\* times and then a success, the elapsed time staying below the ceiling: the
\* call is still on attempt 1 whatever N is, it has not given up, and when it
\* returns it returns the success after exactly N+1 POSTs.
C4_SentinelsCostNoAttempt ==
    (f_service \in PollServices /\ nRetryable = 0 /\ nFailed = 0
        /\ f_pc # "raised" /\ elapsed < total_timeout(f_service))
    => /\ attempt = 1
       /\ Returned => /\ f_result.origin = "response"
                      /\ f_result.status \in FinalStatuses
                      /\ posts = nSentinel + 1

C4_Witness ==
    /\ f_service \in PollServices
    /\ Returned
    /\ nRetryable = 0 /\ nFailed = 0
    /\ nSentinel > max_attempts
    /\ elapsed < total_timeout(f_service)
    /\ f_result = [service |-> f_service, status |-> "success",
                   origin |-> "response", sentinel |-> FALSE]
    /\ posts = nSentinel + 1

\* C5 (as claimed): whatever the responses, the time between the first POST
\* and the return never exceeds timeout * max_attempts.
C5_ElapsedWithinCeiling ==
    (f_pc \in {"done", "raised"}) => elapsed <= total_timeout(f_service)

\* C6: a poll-style source that answers the sentinel on every call is asked
\* again check_interval seconds after each answer, and the call ends: with
\* status error reporting the exceeded total timeout, never with the sentinel.
C6_PollingEndsInTimeoutError ==
    /\ [](OnlySentinels /\ Returned
            => f_result = ErrorResult(f_service, "total_timeout"))
    /\ [][f_pc = "poll_wait"
            => (f_pc' = "post" /\ elapsed' = elapsed + check_interval
                /\ posts' = posts)]_vars
    /\ <>(~OnlySentinels \/ Returned)

C6_Witness ==
    /\ f_service \in PollServices
    /\ OnlySentinels
    /\ posts > max_attempts
    /\ Returned
    /\ f_result = ErrorResult(f_service, "total_timeout")

\* C7: when every response is a non-200 status, a network error, a
\* per-attempt timeout or a 200 body without a valid status (and not the
\* polled sentinel), the call makes max_attempts POSTs, 5 s apart from the
\* previous answer, returns status error after the last one and makes no
\* further POST.
C7_ThreePostsThenError ==
    /\ [](OnlyFailures
            => /\ posts <= max_attempts
               /\ attempt = IF Returned THEN posts ELSE
                            IF f_pc = "backoff" THEN posts ELSE posts + 1
               /\ (posts = max_attempts) <=> Returned
               /\ Returned => f_result.status = "error"
                              /\ f_result.origin # "response")
    /\ [][f_pc = "backoff"
            => (f_pc' = "post" /\ elapsed' = elapsed + RetryBackoff
                /\ posts' = posts)]_vars
    /\ [][Returned => UNCHANGED posts]_vars

C7_Witness ==
    /\ OnlyFailures
    /\ Returned
    /\ posts = max_attempts
    /\ f_result.status = "error"

-----------------------------------------------------------------------------
(* Properties of one lookup (SpecLookup)                                     *)

LookupFinished == l_pc \in {"saved", "failed"}

Called == {tasks[i] : i \in DOMAIN tasks}

StatusIn(rec, f) == IF rec[f] = EmptyString THEN "none" ELSE rec[f][2].status

\* C1 (as claimed): when the lookup finishes, the stored record has, for every
\* source that was called, a non-empty field holding a terminal status or an
\* error placeholder, whatever the call ended with (an exception included).
C1_RequestedSourcesRecorded ==
    LookupFinished
    => /\ Stored(db, Get(data, "inn"))
       /\ \A svc \in Called :
            StatusIn(get_from_db(db, Get(data, "inn")), FieldOf(svc)) \in FinalStatuses

\* The services the identifiers of a query ask for.
ExpectedServices(d) ==
    (IF Present(d, "vin") THEN {"gibdd_auto", "osago", "pledge"} ELSE {})
    \cup (IF Present(d, "grz") /\ Present(d, "sts") THEN {"gibdd_fines"} ELSE {})
    \cup (IF Present(d, "inn") THEN {"efrsb", "nalog", "kad_arbitr"} ELSE {})
    \cup (IF Present(d, "fio") THEN {"probate"} ELSE {})

C3_ErrorLeavesOtherSuccesses ==
    (LookupFinished /\ \E i \in DOMAIN results : results[i].status = "error")
    => \A j \in DOMAIN results :
          results[j].status = "success"
          => /\ Stored(db, Get(data, "inn"))
             /\ get_from_db(db, Get(data, "inn"))[FieldOf(tasks[j])] = json_dumps(results[j])

\* A stored field is either untouched or the serialized result of the call
\* made to the field's own service.
OwnResult(rec, f) ==
    (rec[f] # EmptyString /\ rec[f] # GrzError)
    => \E i \in DOMAIN tasks :
          /\ FieldOf(tasks[i]) = f
          /\ results[i].service = tasks[i]
          /\ rec[f] = json_dumps(results[i])

\* C10: whatever identifiers are present and in whatever order the calls
\* complete, each source field of the record holds the result of the call to
\* its own service, and after the save every called service's result is
\* under its own field.
C10_FieldsHoldOwnServiceResult ==
    /\ collected_data # NoRecord
        => \A f \in SourceFields : OwnResult(collected_data, f)
    /\ \A row \in db : \A f \in SourceFields : OwnResult(row, f)
    /\ l_pc = "saved"
        => /\ Stored(db, Get(data, "inn"))
           /\ \A i \in DOMAIN tasks :
                get_from_db(db, Get(data, "inn"))[FieldOf(tasks[i])] = json_dumps(results[i])

C10_Witness ==
    /\ l_pc = "saved"
    /\ Len(tasks) = Cardinality(SERVICE_URLS)
    /\ StatusIn(get_from_db(db, Get(data, "inn")), "nsis") = "error"
    /\ StatusIn(get_from_db(db, Get(data, "inn")), "efrsb") = "no_data"
    /\ StatusIn(get_from_db(db, Get(data, "inn")), "reestr_zalogov") = "success"

-----------------------------------------------------------------------------
(* Properties of a direct call (SpecDirect)                                  *)

NoIdentifier(d) == \A k \in Identifiers : ~Present(d, k)

Unrequested(rec) == \A f \in SourceFields : rec[f] = EmptyString

\* C11: for a query in which every identifier is empty (its key missing or
\* its value the empty string) no service call is created, the lookup does
\* not fail, and the record built and saved has all eight source fields
\* empty.
C11_NoIdentifierNoCalls ==
    NoIdentifier(data)
    => /\ tasks = <<>>
       /\ l_pc # "failed"
       /\ collected_data # NoRecord => Unrequested(collected_data)
       /\ \A row \in db : Unrequested(row)
       /\ l_pc = "saved" => Stored(db, "")

C11_Witness ==
    /\ l_pc = "saved"
    /\ NoIdentifier(data)
    /\ data["inn"] = "" /\ data["vin"] = "missing"
    /\ Stored(db, "")
    /\ Unrequested(get_from_db(db, ""))

-----------------------------------------------------------------------------
(* Properties of the queue, the worker and the refresh job (SpecQueue)       *)

\* How a well-formed submission is answered.
Answered(d, excel) ==
    IF Len(request_queue) >= QueueLimit
    THEN request_queue' = request_queue /\ reply' = "queue_full"
    ELSE request_queue' = Append(request_queue, Request(d, excel))
         /\ reply' = "accepted"

WellFormed(d) == validate_input(d) /\ Present(d, "inn")

\* C8: the queue never holds more than 10 requests; a well-formed submission,
\* manual or spreadsheet row, made while it holds 10 leaves the queue as it
\* is and is answered "queue full", one made while it holds fewer is
\* appended and accepted; a submission is one step that is always possible
\* (the submitter never waits for room).
C8_QueueBoundedRejectsWhenFull ==
    /\ [](Len(request_queue) <= QueueLimit)
    /\ [](\A d \in ManualInputs : ENABLED process_collected_input(d))
    /\ [](\A d \in ExcelRows : ENABLED ExcelRow(d))
    /\ [][\A d \in ManualInputs :
            (WellFormed(d) /\ process_collected_input(d)) => Answered(d, FALSE)]_vars
    /\ [][\A d \in ExcelRows :
            (WellFormed(d) /\ ExcelRow(d)) => Answered(d, TRUE)]_vars

C8_Witness ==
    /\ Len(request_queue) = QueueLimit
    /\ reply = "queue_full"
    /\ \E i \in DOMAIN request_queue : request_queue[i].is_excel
    /\ \E i \in DOMAIN request_queue : ~request_queue[i].is_excel

\* C9 (as claimed): at most one subject's lookup is in progress in the
\* process at any moment: the worker's, or the refresh job's, never both.
C9_OneLookupAtATime ==
    ~(worker_pc = "processing" /\ refresh_pc = "fetching")

-----------------------------------------------------------------------------
(* Properties of the source services (SpecScrape, SpecReturns)               *)

ScraperReturned == s_pc = "returned"

\* C12 (as claimed): every value a scraper function or fetch_service_data
\* returns is a record (a dict) whose status is success, no_data or error.
C12_EveryReturnIsStatusRecord ==
    /\ Returned => f_result.status \in FinalStatuses
    /\ ScraperReturned
       => s_result[1] = "dict" /\ s_result[2].status \in FinalStatuses

\* C12 (corrected): every value fetch_service_data and seven of the scraper
\* functions return, on every path that ends in a return, is a dict whose
\* status is success, no_data or error; get_probate_case returns the JSON
\* text of such a dict, which decodes to one with such a status.
C12_ReturnsCarryStatus ==
    /\ Returned => f_result.status \in FinalStatuses
    /\ ScraperReturned
       => /\ s_result[1] = IF s_service = "probate" THEN "json" ELSE "dict"
          /\ json_loads(s_result).status \in FinalStatuses

\* get_probate_case has returned the JSON text of a success; get_info_osago
\* would be witnessed the same way with a dict.
C12_Witness ==
    /\ ScraperReturned
    /\ s_service = "probate"
    /\ s_loads = 1
    /\ s_result = json_dumps(ScrapeRecord("success", "result"))

Responded == s_pc = "responded"

\* C13 (as claimed): every response of every gateway is JSON with a status
\* field (success, no_data or error); its code is 400 for a request whose
\* identifier is malformed or missing or whose body cannot be read, 200 when
\* the scraper returned a result, 500 when the scrape raised.
C13_ResponsesAreJsonWithStatus ==
    Responded
    => /\ s_response.body.json
       /\ s_response.body.status \in FinalStatuses
       /\ s_response.code = IF s_input # "valid" THEN 400
                            ELSE IF s_result # NoScrape THEN 200
                            ELSE 500

ScraperLeft == s_pc \in {"returned", "raised", "responded"}

\* C14: when a scraper invocation has ended, by a return or by an exception,
\* on any path (a result, an early error, an exception at any step, a
\* timeout, a failure part-way through the acquisition), no page, no
\* browsing context and no browser connection it opened is still open.
C14_EverythingOpenedIsClosed ==
    ScraperLeft => s_open = Closed

\* The browser was attached, new_context or new_page failed, and the scraper
\* returned its error.
C14_Witness ==
    /\ ScraperReturned
    /\ s_service = "efrsb"
    /\ s_launches = 1
    /\ s_loads = 0
    /\ s_result = <<"dict", ScrapeRecord("error", "acquire")>>
    /\ s_open = Closed

-----------------------------------------------------------------------------
(* Properties of the concurrency limiter (SpecLimiter, FairSpecLimiter)      *)

\* C15 (as claimed): in the process of any of the eight services, whatever
\* single and batch requests it serves concurrently, at most 10 browser
\* pages are open at the same time.
C15_PagesWithinGlobalCeiling ==
    OpenPages(requests) <= GlobalCeiling

\* C16 (as claimed): of the subjects of one batch request at most
\* MAX_CONCURRENT_REQUESTS = 2 are being scraped (have a page open) at the
\* same time.
C16_BatchScrapesTwoAtATime ==
    \A r \in Loops :
        requests[r].batch => requests[r].open <= MAX_CONCURRENT_REQUESTS

\* C17 (as claimed): a scrape that finds every slot of the limiter taken is
\* never rejected and never fails for it; it waits, and when the scheduling
\* is fair and every slot holder ends it is admitted.
C17_SaturationOnlyDelays ==
    /\ [](\A r \in Loops : requests[r].failed = 0)
    /\ \A r \in Loops : (requests[r].waiting > 0) ~> (requests[r].waiting = 0)

Exhausted ==
    /\ s_pc' = "returned"
    /\ json_loads(s_result').status = "error"
    /\ json_loads(s_result').origin = "exhausted"

\* C18: one scraper invocation calls page.goto at most 4 times in gibdd_auto
\* and gibdd_fines and at most 3 times in nsis, pb_nalog and reestr_zalogov
\* (once in the other three); when its last attempt fails in a way that an
\* earlier attempt would have repeated, it returns an error (get_info_osago
\* after one more wait); and when the CAPTCHA of gibdd_fines is not solved in
\* either of the two passes of the fourth attempt, the scraper has loaded the
\* page 4 times and returns an error.
C18_AttemptsBoundedThenError ==
    /\ [](s_service \in GibddServices => s_loads <= 4)
    /\ [](s_service \in {"osago", "nalog", "pledge"} => s_loads <= 3)
    /\ [](s_service \in {"efrsb", "kad_arbitr", "probate"} => s_loads <= 1)
    /\ [](s_attempt <= Budget(s_service))
    /\ [][\A outcome \in {"retry", "playwright_error"} :
            (s_attempt = Budget(s_service) /\ Attempt(outcome))
            => (Exhausted \/ (s_service = "osago" /\ s_pc' = "wait")
                \/ (Budget(s_service) = 1 /\ s_pc' = "returned"
                    /\ json_loads(s_result').status = "error"))]_vars
    /\ [][\A ok \in BOOLEAN :
            (s_attempt = Budget(s_service) /\ Wait(ok)) => Exhausted]_vars
    /\ [][(s_attempt = max_retries /\ s_captcha + 1 = max_captcha_attempts
           /\ Captcha(FALSE))
          => (Exhausted /\ s_loads' = max_retries)]_vars

\* gibdd_fines: the CAPTCHA failed twice in each of four attempts.
C18_Witness ==
    /\ ScraperReturned
    /\ s_service = "gibdd_fines"
    /\ s_attempt = max_retries
    /\ s_loads = max_retries
    /\ s_captcha = max_captcha_attempts
    /\ s_result = <<"dict", ScrapeRecord("error", "exhausted")>>

Enqueued ==
    {request_queue[i].data : i \in 1..Len(request_queue)}
        \cup (IF worker_pc = "processing" THEN {worker_item.data} ELSE {})

\* C19 (as claimed): no network call is made for a query in which a present
\* identifier is malformed: every query the orchestrator has put on the
\* queue or handed to the worker passed validate_input, and a gateway whose
\* request carries an identifier that is not well-formed has launched or
\* attached to no browser and loaded no page, and answers with an error.
C19_NoNetworkCallForMalformed ==
    /\ \A d \in Enqueued : validate_input(d)
    /\ s_input \in {"malformed", "line_feed"}
       => /\ s_launches = 0
          /\ s_loads = 0
          /\ s_open = Closed
          /\ ScraperReturned => json_loads(s_result).status = "error"

-----------------------------------------------------------------------------
(* SpecStore: the debtors table under manual and spreadsheet lookups and the *)
(* scheduled refresh, whose source calls succeed, fail or raise.             *)

MaxQueued == 2

LookupStatuses == {"success", "error"}

NextStore ==
    \/ \E d \in ManualInputs :
          Len(request_queue) < MaxQueued /\ process_collected_input(d)
    \/ \E d \in ExcelRows :
          Len(request_queue) < MaxQueued /\ ExcelRow(d)
    \/ WorkerGet
    \/ \E saved \in BOOLEAN, st \in LookupStatuses : WorkerFinish(saved, st)
    \/ RefreshStart
    \/ \E st \in LookupStatuses \cup {"exception"} : RefreshRecordDone(st)

SpecStore == InitQueue /\ [][NextStore]_vars

\* The records a lookup that is under way may hand to save_to_db.
BeingSaved ==
    (IF worker_pc = "processing"
     THEN {LookupRecord(worker_item.data, st) : st \in LookupStatuses}
     ELSE {})
    \cup (IF refresh_pc = "fetching"
          THEN {RefreshedRecord(Head(refresh_records), st) :
                   st \in LookupStatuses \cup {"exception"}}
          ELSE {})

\* C20: the debtors table never holds two rows with the same tax identifier,
\* and it changes only when a lookup (manual, spreadsheet or refresh) saves
\* its record: that record is then the row of its tax identifier, and the
\* rows of the other tax identifiers are as they were, so each row is the
\* record of the last lookup saved for its tax identifier.
C20_OneRowPerInnLatestSaved ==
    /\ [](\A r1, r2 \in db : r1["inn"] = r2["inn"] => r1 = r2)
    /\ [][db' # db =>
            \E rec \in BeingSaved :
               /\ rec \in db'
               /\ \A row \in db' : row["inn"] = rec["inn"] => row = rec
               /\ \A row \in db \cup db' :
                     row["inn"] # rec["inn"] => (row \in db /\ row \in db')]_vars

\* The refresh wrote its error placeholders over the row a lookup had stored
\* for the same tax identifier, and that row is the only one for it.
C20_Witness ==
    \E row \in db :
       /\ row = RefreshedRecord(Snapshot(row), "exception")
       /\ \E f \in SourceFields : row[f] = RefreshError
       /\ Cardinality({r \in db : r["inn"] = row["inn"]}) = 1
       /\ Cardinality(db) = 2

\* The rows a step replaces: a row of the same tax identifier was stored and
\* the stored row differs from it.
Overwritten ==
    {row \in db : \E rec \in db' : rec["inn"] = row["inn"] /\ rec # row}

\* C21 (as claimed): whenever a lookup (manual, spreadsheet row or refresh)
\* replaces a stored row by a different one, the same step appends to
\* updates.log one entry for that tax identifier listing exactly the source
\* fields whose value changed, with the stored and the new value.
C21_OverwriteIsLogged ==
    [][\A row \in Overwritten :
          LET rec == get_from_db(db', row["inn"][1])
          IN  log_file' = Append(log_file,
                 [inn |-> row["inn"][1],
                  changes |-> [f \in {g \in SourceFields : row[g] # rec[g]} |->
                                  <<row[f], rec[f]>>]])]_vars

Throttled == s_result # NoScrape /\ json_loads(s_result).origin = "throttled"

\* C22: when nsis.ru or pb.nalog.ru says the request limit is exceeded, the
\* scraper returns an error from that attempt (no further attempt, no
\* further page load), the gateway answers 200 with status error, and
\* fetch_service_data returns that error when the response arrives and posts
\* nothing more.
C22_ThrottlingIsNotRetried ==
    /\ [][Attempt("throttled")
          => /\ s_pc' = "returned"
             /\ json_loads(s_result').status = "error"
             /\ s_attempt' = s_attempt
             /\ s_loads' = s_loads + 1]_vars
    /\ [](Throttled
          => /\ s_pc \in {"returned", "responded"}
             /\ s_pc = "responded" => s_response = [code |-> 200, body |-> JsonBody("error")])
    /\ [][(Throttled /\ Outstanding /\ s_pc = "responded" /\ posts' # posts)
          => /\ f_pc' = "done"
             /\ f_result' = [service |-> f_service, status |-> "error",
                             origin |-> "response", sentinel |-> FALSE]
             /\ posts' = s_post]_vars
    /\ [][f_pc = "done" => (posts' = posts /\ s_post' = s_post)]_vars

\* pb.nalog.ru reported the limit on the first page load of the first POST
\* and fetch_service_data has returned the error.
C22_Witness ==
    /\ Throttled
    /\ s_service = "nalog"
    /\ s_loads = 1
    /\ f_pc = "done"
    /\ f_result.status = "error"
    /\ f_result.origin = "response"
    /\ posts = 1

\* C23 (as claimed): the request fetch_service_data posts for a valid name
\* without birth date (birth_date "") is accepted by probate_endpoint: the
\* scraper is run for it and the response is not the 400 of a refused
\* request.
C23_NameWithoutBirthDateIsScraped ==
    (s_service = "probate" /\ s_input = "no_birth_date" /\ s_post > 0 /\ Responded)
    => /\ s_response.code # 400
       /\ s_launches > 0

\* C24 (as claimed): in the scrapers with an attempt loop an invocation never
\* has more than one page open, and when the next attempt starts the page of
\* the attempt that failed has been closed (the attempt gets a new one).
C24_FreshPagePerAttempt ==
    /\ [](Budget(s_service) > 1 => s_open.pages <= 1)
    /\ [][(Budget(s_service) > 1 /\ s_attempt' = s_attempt + 1)
          => s_open'.pages = 0]_vars

\* C25 (as claimed): page.goto and page.wait_for_timeout are never called on
\* a page the scraper has closed: every page load after the first and every
\* wait between attempts finds the page open (get_fines_info loads a page
\* it has just created).
C25_NoUseAfterClose ==
    [][/\ ((s_loads' = s_loads + 1 /\ s_service # "gibdd_fines")
              => s_open.pages > 0)
       /\ ((s_pc = "wait" /\ s_pc' # "wait") => s_open.pages > 0)]_vars


\* C26: an attempt whose outcome is not retryable (an error not flagged for
\* retry, the site's "no records") makes the scraper return that outcome in
\* the same step, with the attempt counter where it was; a malformed
\* identifier is returned before any page load; and once the scraper has
\* returned there is no further page load or attempt.
C26_NonRetryableReturnsAtOnce ==
    /\ [](s_pc = "returned" /\ json_loads(s_result).origin = "validation"
            => s_loads = 0 /\ s_attempt = 1)
    /\ [][Attempt("error")
            => /\ s_pc' = "returned"
               /\ json_loads(s_result') = ScrapeRecord("error", "result")
               /\ s_attempt' = s_attempt]_vars
    /\ [][Attempt("no_records")
            => /\ s_pc' = "returned"
               /\ json_loads(s_result') = NoRecords(s_service)
               /\ s_attempt' = s_attempt]_vars
    /\ [][(s_pc = "returned" \/ s_pc = "responded")
            => (s_loads' = s_loads /\ s_attempt' = s_attempt
                /\ s_result' = s_result)]_vars

\* get_gibdd_info has returned no_data from its second attempt, with two of
\* its four attempts unused.
C26_Witness ==
    /\ s_service = "gibdd_auto"
    /\ s_pc = "returned"
    /\ s_result = <<"dict", ScrapeRecord("no_data", "no_records")>>
    /\ s_attempt = 2
    /\ s_loads = 2


\* C27 (as claimed): when the gateway's answer to a POST is HTTP 400,
\* fetch_service_data ends the call with an error on reading it: the attempt
\* counter stays where it was and no further POST follows.
C27_RejectedInputIsNotRetried ==
    [][(Outstanding /\ s_pc = "responded" /\ s_response.code = 400)
         => (f_pc' = "done" /\ f_result'.status = "error"
             /\ attempt' = attempt)]_vars


\* C28 (as claimed): a result returned because the site said it has no
\* records for the subject has status no_data, whichever the scraper.
C28_NoRecordsIsNoData ==
    (s_pc = "returned" /\ json_loads(s_result).origin = "no_records")
    => json_loads(s_result).status = "no_data"


\* C29 (as claimed): when the results are on the page and the extraction
\* finds no field in them, a scraper that returns from that attempt returns
\* an error, never a success.
C29_EmptyExtractionIsAnError ==
    [][Attempt("nothing_extracted")
         => (s_pc' = "returned" => json_loads(s_result').status = "error")]_vars


\* solve_captcha has made its last poll without getting the solution.
PollsUsedUp ==
    /\ s_pc = "search"
    /\ ~s_poll.solved
    /\ \/ s_service = "gibdd_auto" /\ s_poll.n = 10
       \/ s_service = "gibdd_fines" /\ s_poll.n = 3

\* C30 (as claimed): every poll of solve_captcha that brings no solution is
\* followed by the pause of 5 seconds.
C30_EveryPollIsSpaced ==
    [][\A answer \in {"not_ready", "http_error"} :
          Poll(answer) => s_poll'.slept = s_poll.slept + PollDelay]_vars

\* C30 (amended): one solve_captcha call polls at most 10 times in gibdd_auto
\* and 3 times in gibdd_fines; a poll answered 200 without a solution is
\* followed by a pause of 5 seconds, a poll answered with another HTTP status
\* by none; after the last poll without a solution only the unsolved branch
\* of perform_search can follow, and that branch is the second CAPTCHA pass
\* of gibdd_fines or ends the attempt with a result that is retried (or, on
\* the last attempt, with the error of the exhausted attempts).
C30_PollsBoundedThenRetryable ==
    /\ [](s_service = "gibdd_auto" => s_poll.n <= 10)
    /\ [](s_service = "gibdd_fines" => s_poll.n <= 3)
    /\ [](s_poll.slept <= PollDelay * s_poll.n)
    /\ [][Poll("not_ready") => s_poll'.slept = s_poll.slept + PollDelay]_vars
    /\ [][Poll("http_error") => s_poll'.slept = s_poll.slept]_vars
    /\ [][PollsUsedUp => Captcha(FALSE)]_vars
    /\ [][Captcha(FALSE)
            => \/ /\ s_service = "gibdd_fines"
                  /\ s_captcha + 1 < max_captcha_attempts
                  /\ s_pc' = "search"
                  /\ s_captcha' = s_captcha + 1
               \/ /\ s_attempt < Budget(s_service)
                  /\ s_pc' = (IF s_service = "gibdd_fines" THEN "attempt" ELSE "wait")
                  /\ s_result' = s_result
               \/ /\ s_attempt = Budget(s_service)
                  /\ Exhausted]_vars

\* get_gibdd_info waits for its next attempt after a solve_captcha call that
\* polled 10 times, some of the polls answered with an HTTP error.
C30_Witness ==
    /\ s_service = "gibdd_auto"
    /\ s_pc = "wait"
    /\ s_poll.n = 10
    /\ ~s_poll.solved
    /\ s_poll.slept = 6 * PollDelay


\* The browsing contexts the running scrapes of request r have their pages
\* in: browser.new_context() gives every scrape one of its own (<<r, i>>);
\* get_probate_case opens its page in browser.contexts[0], the default
\* context of the browser it attaches to (<<0, 0>>).
ContextsInUse(r) ==
    IF p_service = "probate"
    THEN IF requests[r].open > 0 THEN {<<0, 0>>} ELSE {}
    ELSE {<<r, i>> : i \in 1 .. requests[r].open}

\* C31 (as claimed): the running scrapes of one source service have each a
\* browsing context of their own: no context holds the pages of two requests,
\* and a request has as many contexts as it has running scrapes.
C31_OwnContextPerScrape ==
    /\ \A r1, r2 \in Loops :
          r1 # r2 => ContextsInUse(r1) \cap ContextsInUse(r2) = {}
    /\ \A r \in Loops : Cardinality(ContextsInUse(r)) = requests[r].open


\* The call of fetch_service_data, or the scraper invocation, is over: it
\* has returned, or an exception has left it.
Terminated ==
    \/ f_pc \in {"done", "raised"}
    \/ s_pc \in {"returned", "raised", "responded"}

C33_OnlyGibddAutoErrorsAreAskedAgain ==
    /\ [](nRetryable > 0 => f_service = "gibdd_auto")
    /\ [][nRetryable' = nRetryable + 1
            => /\ attempt' = attempt
               /\ nFailed' = nFailed
               /\ posts' = posts + 1
               /\ IF elapsed' >= total_timeout(f_service)
                  THEN /\ f_pc' = "done"
                       /\ f_result' = ErrorResult(f_service, "total_timeout")
                  ELSE f_pc' = "poll_wait" /\ f_result' = f_result]_vars
    /\ [][(f_pc = "poll_wait" /\ nRetryable > 0)
            => (f_pc' = "post" /\ elapsed' = elapsed + check_interval
                /\ attempt' = attempt /\ nRetryable' = nRetryable)]_vars
    /\ [][(f_pc' = "done" /\ f_pc = "post"
           /\ f_result' = [service |-> f_service, status |-> "error",
                           origin |-> "response", sentinel |-> FALSE])
            => (posts' = posts + 1 /\ attempt' = attempt
                /\ nRetryable' = nRetryable /\ nFailed' = nFailed)]_vars

\* A call for gibdd_auto whose every answer was an error asking for a retry
\* has ended with the timeout error, still on its first attempt.
C33_Witness ==
    /\ f_service = "gibdd_auto"
    /\ Returned
    /\ nRetryable = posts
    /\ posts > max_attempts
    /\ attempt = 1
    /\ f_result = ErrorResult(f_service, "total_timeout")


\* The record carries retry: True.
RetryFlag(rec) == rec.origin = "retry"

\* C34: what get_gibdd_info and get_fines_info return is the `result` of
\* their loop and never a record with retry True; while `result` is such a
\* record the loop is on its way to another attempt within the budget, or an
\* exception has left the scraper.
C34_ReturnedRecordHasNoRetryFlag ==
    /\ [](s_service \in GibddServices /\ s_pc = "returned" /\ s_loads > 0
            => /\ json_loads(s_result) = s_last
               /\ ~RetryFlag(json_loads(s_result)))
    /\ [](s_service \in GibddServices /\ RetryFlag(s_last)
            => /\ s_pc \in {"attempt", "search", "wait", "raised", "responded"}
               /\ s_attempt <= Budget(s_service)
               /\ (s_pc = "responded" => s_response.code = 500))

\* get_gibdd_info has returned the error of the used-up attempts: its fourth
\* attempt ended with an unsolved CAPTCHA, a record with retry True, which
\* the error replaced.
C34_Witness ==
    /\ s_service = "gibdd_auto"
    /\ s_pc = "returned"
    /\ s_attempt = max_retries
    /\ s_loads = max_retries
    /\ s_poll.n = 1
    /\ s_result = <<"dict", ScrapeRecord("error", "exhausted")>>


\* C35: a call for gibdd_auto or gibdd_fines never returns a response whose
\* data field is the 'still processing' text; a response that carries it
\* leads to the wait before the next poll or, when the elapsed time has
\* reached the ceiling, to the timeout error.
C35_SentinelIsNeverReturned ==
    /\ [](f_service \in PollServices /\ Returned => ~f_result.sentinel)
    /\ [][nSentinel' = nSentinel + 1
            => \/ f_pc' = "poll_wait" /\ f_result' = f_result
               \/ /\ f_pc' = "done"
                  /\ elapsed' >= total_timeout(f_service)
                  /\ f_result' = ErrorResult(f_service, "total_timeout")]_vars

\* A call for gibdd_fines has returned "no data" after two intermediate
\* answers.
C35_Witness ==
    /\ f_service = "gibdd_fines"
    /\ Returned
    /\ nSentinel = 2
    /\ posts = 3
    /\ f_result.status = "no_data"
    /\ f_result.origin = "response"
    /\ ~f_result.sentinel


-----------------------------------------------------------------------------
(* FairSpecWorker: the work queue and the worker task, whose processing of   *)
(* a request returns or raises.                                              *)

\* One step of the worker task (main.py:88-102): the loop body runs on the
\* event loop whenever it can.
WorkerStep ==
    \/ WorkerGet
    \/ \E saved \in BOOLEAN, st \in LookupStatuses : WorkerFinish(saved, st)
    \/ WorkerException
    \/ WorkerWake

NextWorker ==
    \/ \E d \in ManualInputs :
          Len(request_queue) < MaxQueued /\ process_collected_input(d)
    \/ \E d \in ExcelRows :
          Len(request_queue) < MaxQueued /\ ExcelRow(d)
    \/ WorkerStep

\* loop.create_task(worker(...)): the worker is a task of the running event
\* loop, so a step of it that stays possible is taken.
FairSpecWorker == InitQueue /\ [][NextWorker]_vars /\ WF_vars(WorkerStep)

\* The requests the producers can put on the queue.
Requests ==
    {Request(d, FALSE) : d \in ManualInputs} \cup
    {Request(d, TRUE) : d \in ExcelRows}

Waiting(r) == \E i \in DOMAIN request_queue : request_queue[i] = r

Taken(r) == worker_pc = "processing" /\ worker_item = r

\* C36: every request in the work queue is eventually taken by the worker,
\* whatever happened to the requests before it: after an exception the
\* worker sleeps and is back at request_queue.get(), and the request at the
\* head of the queue is the one it takes next.
C36_AdmittedIsEventuallyTaken ==
    /\ \A r \in Requests : Waiting(r) ~> Taken(r)
    /\ (worker_pc = "sleep") ~> (worker_pc = "get")
    /\ [][worker_pc = "sleep" => (worker_pc' = "sleep" \/ worker_pc' = "get")]_vars
    /\ [][(worker_pc = "get" /\ worker_pc' = "processing")
            => (request_queue # <<>> /\ worker_item' = Head(request_queue)
                /\ request_queue' = Tail(request_queue))]_vars

\* The processing of a request has raised while two more wait.
C36_Witness ==
    /\ worker_pc = "sleep"
    /\ Len(request_queue) = MaxQueued
    /\ worker_item = NoRequest


-----------------------------------------------------------------------------
(* SpecValidate: the identifier checks of the orchestrator and of the        *)
(* gateways applied to the same text. A text is described by what the        *)
(* regular expressions can tell apart: its length and the kinds of           *)
(* characters in it. The bot strips what it reads (main.py:814-825,          *)
(* 1300-1304), so no text ends with white space.                             *)

\* "upper": A-H, J-N, P, R-Z; "ioq": the capitals I, O and Q; "lower": a-h,
\* j-n, p, r-z; "other": not alphanumeric ("-").
CharClasses == {"digit", "upper", "ioq", "lower", "other"}

TextLengths == {10, 12, 16, 17}

Texts == [len : TextLengths, chars : (SUBSET CharClasses) \ {{}}]

\* The key is not in the dict.
NoText == [len |-> 0, chars |-> {}]

\* re.match(r'^[...]{n}$', text) for a text without a final line feed.
re_match(lens, allowed, text) == text.len \in lens /\ text.chars \subseteq allowed

\* main.py:450 and 458: r'^\d{10}$|^\d{12}$', r'^[A-Z0-9]{17}$'.
validate_text(k, text) ==
    IF k = "inn" THEN re_match({10, 12}, {"digit"}, text)
    ELSE re_match({17}, {"digit", "upper", "ioq"}, text)

\* is_valid_inn of efrsb, nalog and kad_arbitr: r'^\d{10}$|^\d{12}$'.
is_valid_inn(text) == re_match({10, 12}, {"digit"}, text)

\* is_valid_vin of osago and pledge: r'^[A-HJ-NPR-Z0-9]{17}$', re.IGNORECASE.
is_valid_vin(text) == re_match({17}, {"digit", "upper", "lower"}, text)

\* gibdd_endpoint: isinstance(vin, str) and len(vin) == 17 and vin.isalnum()
gibdd_vin_check(text) ==
    text.len = 17 /\ text.chars \subseteq {"digit", "upper", "ioq", "lower"}

\* The services an identifier is sent to (BuildTasks).
KeyedBy(k) ==
    IF k = "inn" THEN {"efrsb", "nalog", "kad_arbitr"}
    ELSE {"gibdd_auto", "osago", "pledge"}

KeyOf(svc) == IF svc \in KeyedBy("inn") THEN "inn" ELSE "vin"

\* The endpoint goes on to the scraper, or answers 400.
EndpointAccepts(svc, text) ==
    IF svc \in KeyedBy("inn") THEN is_valid_inn(text)
    ELSE IF svc = "gibdd_auto" THEN gibdd_vin_check(text)
    ELSE is_valid_vin(text)

\* A submitted query: a tax identifier alone, or a well-formed tax identifier
\* with a VIN.
Submissions ==
    {[inn |-> t, vin |-> NoText] : t \in Texts} \cup
    {[inn |-> [len |-> 10, chars |-> {"digit"}], vin |-> t] : t \in Texts}

InitValidate ==
    /\ FetchIdle
    /\ QueueVarsIdle
    /\ ServiceIdle
    /\ l_pc = "idle"
    /\ data \in Submissions
    /\ is_excel = FALSE
    /\ tasks = <<>>
    /\ results = <<>>
    /\ collected_data = NoRecord
    /\ db = EmptyTable
    /\ log_file = <<>>

\* validate_input on the submitted dict.
ValidateInput ==
    /\ reply = "none"
    /\ reply' = IF \A k \in {"inn", "vin"} :
                      data[k] # NoText => validate_text(k, data[k])
                THEN "accepted" ELSE "invalid"
    /\ UNCHANGED <<request_queue, worker_pc, worker_item, refresh_pc,
                   refresh_records, fetchVars, serviceVars, lookupVars>>

\* fetch_service_data(svc, {key: data[key]}) for an accepted query: the POST
\* reaches the endpoint.
PostIdentifier(svc) ==
    /\ reply = "accepted"
    /\ s_pc = "idle"
    /\ data[KeyOf(svc)] # NoText
    /\ s_service' = svc
    /\ s_pc' = "request"
    /\ UNCHANGED <<s_input, s_post, s_attempt, s_captcha, s_poll, s_loads,
                   s_launches, s_open, s_result, s_last, s_response,
                   otherVars>>

\* The endpoint's check of the identifier: the scraper is called, or the
\* answer is 400.
EndpointCheck ==
    /\ s_pc = "request"
    /\ IF EndpointAccepts(s_service, data[KeyOf(s_service)])
       THEN s_pc' = "acquire" /\ UNCHANGED s_response
       ELSE Respond(400, JsonBody("error"))
    /\ UNCHANGED <<s_service, s_input, s_post, s_attempt, s_captcha, s_poll,
                   s_loads, s_launches, s_open, s_result, s_last, otherVars>>

NextValidate ==
    \/ ValidateInput
    \/ \E svc \in KeyedBy("inn") \cup KeyedBy("vin") : PostIdentifier(svc)
    \/ EndpointCheck

SpecValidate == InitValidate /\ [][NextValidate]_vars

\* C37 (as claimed): an identifier validate_input accepted is never answered
\* with HTTP 400 by a gateway it is sent to.
C37_AcceptedByOrchestratorPassesGateway ==
    (reply = "accepted" /\ s_pc = "responded") => s_response.code # 400

\* What holds: a 400 for an accepted identifier comes from osago or pledge
\* only, and for a VIN with one of the letters I, O, Q.
AcceptedAndRefused ==
    reply = "accepted" /\ s_pc = "responded" /\ s_response.code = 400

OnlyVinWithIOQIsRefused ==
    AcceptedAndRefused
    => (s_service \in {"osago", "pledge"} /\ "ioq" \in data["vin"].chars)


-----------------------------------------------------------------------------
(* SpecAdmission: the two producers with every query they can be given, and  *)
(* the worker taking what they queued.                                       *)

\* What the manual dialogue can submit: any choice of keys, each with a
\* matching or a malformed text.
DialogueData == {d \in AllData : \A k \in Identifiers : d[k] # ""}

\* The rows of a spreadsheet: all five keys, an empty cell is ''.
SheetData == {d \in AllData : \A k \in Identifiers : d[k] # "missing"}

NextAdmission ==
    \/ \E d \in DialogueData :
          Len(request_queue) < MaxQueued /\ process_collected_input(d)
    \/ \E d \in SheetData :
          Len(request_queue) < MaxQueued /\ ExcelRow(d)
    \/ WorkerGet
    \/ WorkerFinish(FALSE, "success")

SpecAdmission == InitQueue /\ [][NextAdmission]_vars

\* validate_input passed and the tax identifier is there.
Admissible(d) == d["inn"] \in INNs /\ validate_input(d)

\* C38: every request in the work queue, and the one the worker has taken
\* from it, carries a tax identifier of 10 or 12 digits and passes
\* validate_input; the queue grows only by such a request, with the answer
\* that it was accepted, so a query without a tax identifier never enters.
C38_QueuedRequestsCarryValidInn ==
    /\ [](\A i \in DOMAIN request_queue : Admissible(request_queue[i].data))
    /\ [](worker_pc = "processing" => Admissible(worker_item.data))
    /\ [][request_queue' # request_queue /\ Len(request_queue') >= Len(request_queue)
            => (/\ reply' = "accepted"
                /\ request_queue' = Append(request_queue,
                                           request_queue'[Len(request_queue')])
                /\ Admissible(request_queue'[Len(request_queue')].data))]_vars

\* A query with a VIN and no tax identifier has just been refused while a
\* request with both waits in the queue.
C38_Witness ==
    /\ reply = "need_inn"
    /\ \E i \in DOMAIN request_queue :
          /\ request_queue[i].data["vin"] = "valid"
          /\ request_queue[i].data["inn"] \in INNs
          /\ ~request_queue[i].is_excel


-----------------------------------------------------------------------------
(* GLOBAL_SEMAPHORE and the scrapes inside `async with GLOBAL_SEMAPHORE`     *)
(* (SpecLimiter)                                                             *)

\* Scrapes of all requests that are inside the `async with` block.
InBlock(reqs) ==
    LET RECURSIVE Sum(_)
        Sum(r) == IF r = 0 THEN 0 ELSE reqs[r].open + Sum(r - 1)
    IN  Sum(MaxRequests)

\* Scrapes of all requests that wait in acquire().
InAcquire(reqs) ==
    LET RECURSIVE Sum(_)
        Sum(r) == IF r = 0 THEN 0 ELSE reqs[r].waiting + Sum(r - 1)
    IN  Sum(MaxRequests)

\* Scrapes that ended: returned, or left with an exception.
Ended(reqs) ==
    LET RECURSIVE Sum(_)
        Sum(r) == IF r = 0 THEN 0 ELSE reqs[r].done + reqs[r].failed + Sum(r - 1)
    IN  Sum(MaxRequests)

HeldSlots == GlobalCeiling - sem_value

\* C39: in a limiter-guarded scraper the slots taken from GLOBAL_SEMAPHORE
\* are those of the scrapes inside the `async with` block plus those of the
\* waiters that release() has already given a slot and that have not yet
\* resumed; a scrape that leaves the block gives its slot back, to the
\* semaphore or to a waiter; and when no scrape is inside the block or in
\* acquire(), all 10 slots are free.
C39_HeldSlotsAreScrapesInFlight ==
    /\ [](p_service \notin GibddServices
            => /\ HeldSlots = InBlock(requests) + sem_handed
               /\ sem_handed <= InAcquire(requests)
               /\ sem_value \in 0..GlobalCeiling
               /\ (InBlock(requests) + InAcquire(requests) = 0
                    => sem_value = GlobalCeiling))
    /\ [][(p_service \notin GibddServices
           /\ InBlock(requests') < InBlock(requests))
            => sem_value' + sem_handed' = sem_value + sem_handed + 1]_vars

\* All slots were taken, a scrape of another request failed in acquire(),
\* and every scrape has ended since: the 10 slots are free again.
C39_Witness ==
    /\ p_service \notin GibddServices
    /\ \E r \in Loops : requests[r].failed > 0
    /\ Ended(requests) > GlobalCeiling
    /\ InBlock(requests) + InAcquire(requests) = 0
    /\ \A r \in Loops : requests[r].new = 0
    /\ sem_value = GlobalCeiling


-----------------------------------------------------------------------------
(* The scheduled refresh and updates.log (SpecStore)                         *)

\* The step of update_db_records that ends the work on one record.
RefreshRecordEnds ==
    refresh_pc = "fetching" /\ refresh_records' = Tail(refresh_records)

\* The statuses the source calls of a refresh end with.
RefreshStatuses == LookupStatuses \cup {"exception"}

\* C40: when update_db_records is done with a record whose freshly collected
\* data is new_data: if no source field of new_data differs from the stored
\* row, the table and updates.log stay as they are; otherwise the row is
\* replaced by new_data and updates.log grows by one entry for the record's
\* tax identifier, holding exactly the differing fields, each with the
\* stored and the new value.
C40_RefreshSavesAndLogsExactlyTheChanges ==
    [][RefreshRecordEnds =>
        \E st \in RefreshStatuses :
            LET new_data == RefreshedRecord(Head(refresh_records), st)
                current_data == get_from_db(db, new_data["inn"][1])
                differing == {f \in SourceFields :
                                current_data[f] # new_data[f]}
            IN  /\ differing = {} => UNCHANGED <<db, log_file>>
                /\ differing # {} =>
                     /\ new_data \in db'
                     /\ \A row \in db' :
                          row = new_data
                          \/ (row \in db /\ row["inn"] # new_data["inn"])
                     /\ \A row \in db : row["inn"] # new_data["inn"] => row \in db'
                     /\ Len(log_file') = Len(log_file) + 1
                     /\ SubSeq(log_file', 1, Len(log_file)) = log_file
                     /\ LET entry == log_file'[Len(log_file')]
                        IN  /\ entry.inn = new_data["inn"][1]
                            /\ DOMAIN entry.changes = differing
                            /\ \A f \in differing :
                                 entry.changes[f] = <<current_data[f], new_data[f]>>
                /\ \A f \in SourceFields :
                     get_from_db(db', new_data["inn"][1])[f] = new_data[f]]_vars

\* A refresh has rewritten a record and logged some, not all, of its source
\* fields, and has gone through all records.
C40_Witness ==
    /\ refresh_pc = "idle"
    /\ Len(log_file) = 1
    /\ DOMAIN log_file[1].changes # {}
    /\ DOMAIN log_file[1].changes # SourceFields
    /\ \E row \in db :
          /\ row["inn"][1] = log_file[1].inn
          /\ \A f \in DOMAIN log_file[1].changes :
                row[f] = log_file[1].changes[f][2]

====
